---- MODULE Spec2Model ----
(***************************************************************************)
(* Model of the cruxd recipe execution engine: the orchestrator            *)
(* (recipe.build / buildPlatform / buildStage), the step executor and the  *)
(* container-runtime adapter operations it drives (StartContainer, Exec,   *)
(* Stop, Export, Destroy) against an abstract container engine.            *)
(*                                                                         *)
(* Strings are sequences of tokens: the separators "/", "-" and ":" are    *)
(* always tokens of their own, every other token is a fragment that holds  *)
(* no separator.  File-system paths are sequences of components, each      *)
(* component a string.                                                     *)
(***************************************************************************)
EXTENDS Integers, Sequences, FiniteSets, TLC

\* ------------------------------------------------------------------ bounds
MaxStages == 2
MaxSteps == 1
MaxPlatforms == 2
MaxApply == 2
MaxTop == 2
MaxChildren == 2
MaxLen == 5
MaxConns == 3
MaxGoroutines == 3
MaxExecs == 4
MaxEntries == 2
MaxPath == 3
MaxBlocks == 2
MaxIdStages == 2
MaxReaders == 2
MaxReads == 3
MaxTagCalls == 3
MaxIndex == 2
MaxLayers == 2
MaxFaults == 3

\* ------------------------------------------------------------ input domains
\* Architecture of the host the daemon was built for (runtime.GOARCH).
GOARCH == "amd64"

PlatformSet == { <<"linux", "/", "amd64">>, <<"linux", "/", "arm64">> }

\* Stage names a recipe may declare; the empty string is an unnamed stage.
NameSet == { <<>>, <<"a">> }

\* Base image archives a stage may name in its `from`.
FromSet == { <<"base.tar">> }

\* Copy sources: a prefix that is a declarable stage name, a prefix that is
\* the index of an unnamed stage, and a host path.  The destination of every
\* copy is an absolute path.
CopySrcSet == { <<"a", ":", "/", "f">>, <<"1", ":", "/", "f">>, <<"/", "f">> }

\* Shells, working directories and environments a step may carry; the empty
\* string and the empty map stand for an absent field.
ShellSet == { "", "/bin/bash", "/bin/zsh" }
WorkdirSet == { << >>, << "/", "app" >>, << "/", "tmp" >> }
EnvKeys == { "A", "B" }
EnvVals == { "1", "2" }
EnvSet == UNION { [K -> EnvVals] : K \in SUBSET EnvKeys }

\* manifest.Step with every field empty.
NoStep == [run |-> "", copy |-> << >>, shell |-> "", workdir |-> << >>,
           env |-> << >>, steps |-> << >>]

\* Steps that carry modifiers only.
ModifierSet == { [NoStep EXCEPT !.shell = sh, !.workdir = wd, !.env = e] :
                    sh \in ShellSet, wd \in WorkdirSet, e \in EnvSet }

\* Steps of the recipes the orchestrator is run on: a run, the copies, and a
\* step of modifiers.
StepSet == { [NoStep EXCEPT !.run = "cmd"] }
             \cup { [NoStep EXCEPT !.copy = s] : s \in CopySrcSet }
             \cup { [NoStep EXCEPT !.shell = "/bin/bash",
                                   !.workdir = << "/", "app" >>,
                                   !.env = [k \in { "A" } |-> "1"]] }

SeqsUpTo(S, n) == UNION { [1..k -> S] : k \in 0..n }

StageSet == [name : NameSet, from : FromSet, transient : BOOLEAN,
             steps : SeqsUpTo(StepSet, MaxSteps)]

RecipeSet == UNION { [1..k -> StageSet] : k \in 1..MaxStages }

PlatformLists == SeqsUpTo(PlatformSet, MaxPlatforms)

\* ------------------------------------------------------------------- state
VARIABLES
    recipe,         \* opts.Recipe.Stages
    optsPlatforms,  \* opts.Platforms as requested
    pc,             \* position of Run
    platforms,      \* recipe.platforms
    pi,             \* index of the platform being built
    si,             \* index of the stage being built (1-based)
    ki,             \* index of the next step of the stage (1-based)
    di,             \* index of the next container to destroy
    containers,     \* recipe.containers
    ctr,            \* buildStage's container: [h: handle, id, platform]
    stages,         \* per-platform stage map: name -> container
    err,            \* error Run is returning, "nil" if none
    cancelled,      \* the caller's context is done
    existing,       \* engine: ids of the containers that exist
    running,        \* engine: ids of the containers whose task is running
    images,         \* engine: image name -> target descriptor
    files,          \* host file system: archive paths that exist
    complete,       \* host file system: archive paths fully written
    destroys,       \* history: Destroy calls received by each started container
    stageRuns,      \* history: one record per buildStage call
    opsAfterFail,   \* history: engine operations issued once err was set
    fsAtFail,       \* history: files/complete when err was set
    lastCopy,       \* history: the most recent copy step
    state           \* the stepState of the stage whose steps execute

\* State of the specifications of single components.
VARIABLES
    calls,          \* stepState: the apply calls made, with the state after each
    resolved,       \* stepState: the most recent resolve call
    steps,          \* executeSteps: the step list it was called with
    work,           \* executeSteps: the steps still to execute, in order
    trace,          \* executeSteps: one record per executeStep call made
    serr,           \* executeSteps: the error returned, "nil" if none
    input,          \* parseCopy / parseStageCopy: the arguments
    parsed,         \* parseCopy: what it returned
    staged,         \* parseStageCopy: what it returned
    box,            \* Container: what the engine holds under the container id
    lastOp,         \* Container: the most recent lifecycle call
    prevOp,          \* Container: the lifecycle call before that
    conns,          \* Server: the connections: the handler's position, its respond calls
    builds,         \* Server.builds
    mu,             \* Server.mu: the connection whose handler holds it, 0 if free
    done,           \* Server.done: closed or not
    stopping,       \* Server: the Stop goroutines started and not yet run
    crashed,         \* Server: the process has panicked
    execSeq,        \* runtime.execSeq
    execCalls,      \* nextExecID: per goroutine, the call in progress
    execAdds,       \* nextExecID: the sequence numbers obtained, in the order of the additions
    execIds,         \* nextExecID: the identifiers returned, in the order of the returns
    envIn,          \* mergeEnv: the arguments
    envOut,          \* mergeEnv: what it returned
    tagIn,          \* imageTag: the archive paths at hand
    tagOut,          \* imageTag: the calls made, each with its path and the tag returned
    xpc,            \* Export: the engine request it is at
    lease,          \* Export: the content lease: none, held or released
    blobs,          \* Export: the blobs of this export present in the content store
    held,           \* Export: the blobs written under the lease
    xlog,           \* Export: what it has done so far, each with the lease at that time
    xerr,           \* Export: what it returned
    xcancelled,     \* Export: its context is cancelled
    xindex,          \* Export: the root of the image is an index
    cdir,           \* direction of the copy: host to container or stage to container
    ctotal,         \* data blocks the producer has to write
    cwritten,       \* data blocks that went through the pipe
    pstate,         \* where the producer is
    perr,           \* the producer's error
    wend,           \* the pipe's write end
    errc,           \* the channel of executeStageCopy
    copier,         \* the copy of the pipe into the consumer's stdin
    stdinEOF,       \* the consumer's stdin was closed (CloseIO)
    footer,         \* the end-of-archive marker reached the consumer
    cexit,          \* the consumer's exit
    cpc,            \* where the copy operation is
    cret,           \* what the copy operation returned
    ccancelled,      \* the context of the copy is cancelled
    inames,         \* names of the recipe's stages
    iplats,         \* platforms of the run
    ipi,            \* platform being built
    isi,            \* stage being built
    ipc,            \* where the run is
    istarted,       \* containers StartContainer returned, in order
    ilive,          \* containers in the engine, each with the start that made it
    imap,           \* stage map of the platform being built
    ikilled,         \* starts whose container a later StartContainer removed
    epc,            \* where execProcess is
    eproc,          \* the exec process in the engine
    elog,           \* requests made to the engine for the process, in order
    eret,           \* what execProcess returned
    estdin,         \* a stdin reader was given
    eonce,          \* the sync.Once of the doneReader has run
    ecloses,        \* times the done channel was closed
    eeofs,          \* Reads of the doneReader that returned io.EOF
    ereads,         \* Reads of the doneReader so far
    erpc,           \* per reading goroutine, the result of the Read it is in
    ecloser,         \* the goroutine of awaitProcess that closes the stdin
    listener,       \* the listener of the socket
    aloop,          \* the accept loop
    closing,        \* Stops that closed done and have not closed the listener yet
    signalled,       \* the context of the start command is cancelled
    troot,          \* the image root Export starts from
    tplat,          \* the container's platform
    tentry,         \* the entrypoint override
    tpc,            \* position inside buildExportTarget
    tsel,           \* what resolveManifestDescriptor returned
    tman,           \* the manifest mutateManifest wrote
    ttarget         \* the export root buildImageTarget returned

stateUnit == << calls, resolved >>
stepsUnit == << steps, work, trace, serr >>
parseUnit == << input, parsed, staged >>
lifeUnit == << box, lastOp, prevOp >>
serverUnit == << conns, builds, mu, done, stopping, crashed >>
execUnit == << execSeq, execCalls, execAdds, execIds >>
envUnit == << envIn, envOut >>
tagUnit == << tagIn, tagOut >>
leaseUnit == << xpc, lease, blobs, held, xlog, xerr, xcancelled, xindex >>
pipeUnit == << cdir, ctotal, cwritten, pstate, perr, wend, errc, copier, stdinEOF, footer, cexit, cpc, cret, ccancelled >>
idUnit == << inames, iplats, ipi, isi, ipc, istarted, ilive, imap, ikilled >>
awaitUnit == << epc, eproc, elog, eret, estdin, eonce, ecloses, eeofs, ereads, erpc, ecloser >>
stopUnit == << listener, aloop, closing, signalled >>
targetUnit == << troot, tplat, tentry, tpc, tsel, tman, ttarget >>
units == << stateUnit, stepsUnit, parseUnit, lifeUnit, serverUnit, execUnit, envUnit, tagUnit, leaseUnit, pipeUnit, idUnit, awaitUnit, stopUnit, targetUnit >>

main == << recipe, optsPlatforms, pc, platforms, pi, si, ki, di,
           containers, ctr, stages, err, cancelled, existing, running, images,
           files, complete, destroys, stageRuns, opsAfterFail, fsAtFail,
           lastCopy >>

vars == << main, state, units >>

inputs == << recipe, optsPlatforms >>
engine == << existing, running, images >>
fs == << files, complete >>

history == << destroys, stageRuns, opsAfterFail, fsAtFail, lastCopy >>

\* ----------------------------------------------------------------- strings
\* opts.Resource and opts.Output of the request.
Resource == "res"
Output == << <<"out">> >>

\* strconv of a stage index: one fragment holding the decimal digits.
Itoa(n) == << ToString(n) >>

\* filepath.Join(dir, elem) for a non-empty single component.
Join(dir, elem) == Append(dir, elem)

\* strings.IndexByte: 0-based position of the first c in s, -1 if none.
IndexByte(s, c) ==
    IF \E j \in 1..Len(s) : s[j] = c
    THEN (CHOOSE j \in 1..Len(s) : s[j] = c /\ \A k \in 1..(j - 1) : s[k] # c) - 1
    ELSE -1

platformSlug(platform) ==
    [i \in 1..Len(platform) |-> IF platform[i] = "/" THEN "-" ELSE platform[i]]

\* index is 0-based, as in the source.
containerID(name, index, platform) ==
    << Resource, "-" >> \o platformSlug(platform) \o << "-", "stage", "-" >>
        \o (IF name # <<>> THEN name ELSE Itoa(index + 1))

\* Faulty variants of platformOutput: a platform directory even for a single
\* platform, and the output directory itself for every platform.
platformOutputAlwaysSlug(ps, platform) == Join(Output, platformSlug(platform))
platformOutputAlwaysRoot(ps, platform) == Output

platformOutput(ps, platform) ==
    IF Len(ps) = 1 THEN Output ELSE Join(Output, platformSlug(platform))

exportFilename == << "image.tar" >>

exportPath(output) == Join(output, exportFilename)

\* Faulty variant of parseStageCopy: a separator before the colon is allowed.
parseStageCopyAnyPrefix(src) ==
    LET i == IndexByte(src, ":")
    IN  IF i < 1 THEN [ok |-> FALSE, stage |-> <<>>, path |-> <<>>]
        ELSE [ok |-> TRUE, stage |-> SubSeq(src, 1, i),
              path |-> SubSeq(src, i + 2, Len(src))]

parseStageCopy(src) ==
    LET i == IndexByte(src, ":")
        no == [ok |-> FALSE, stage |-> <<>>, path |-> <<>>]
    IN  IF i < 1 THEN no
        ELSE IF \E j \in 1..i : src[j] = "/" THEN no
        ELSE [ok |-> TRUE, stage |-> SubSeq(src, 1, i),
              path |-> SubSeq(src, i + 2, Len(src))]

\* strings.Fields: the maximal runs of tokens that are not white space.
RECURSIVE Fields(_)
Fields(s) ==
    IF s = << >> THEN << >>
    ELSE IF Head(s) = " " THEN Fields(Tail(s))
    ELSE LET n == IF \E j \in 1..Len(s) : s[j] = " "
                  THEN (CHOOSE j \in 1..Len(s) :
                           s[j] = " " /\ \A k \in 1..(j - 1) : s[k] # " ") - 1
                  ELSE Len(s)
         IN << SubSeq(s, 1, n) >> \o Fields(SubSeq(s, n + 1, Len(s)))

\* filepath.IsAbs
IsAbs(path) == Len(path) > 0 /\ path[1] = "/"

\* filepath.Clean of a non-empty path without "." and ".." elements: runs of
\* separators become one and a trailing separator is dropped, but for the
\* root.
RECURSIVE Squeeze(_)
Squeeze(path) ==
    IF Len(path) < 2 THEN path
    ELSE IF path[1] = "/" /\ path[2] = "/" THEN Squeeze(Tail(path))
    ELSE << Head(path) >> \o Squeeze(Tail(path))
Clean(path) ==
    LET q == Squeeze(path)
    IN IF Len(q) > 1 /\ q[Len(q)] = "/" THEN SubSeq(q, 1, Len(q) - 1) ELSE q

\* filepath.Join of two non-empty elements.
filepathJoin(dir, elem) == Clean(dir \o << "/" >> \o elem)

\* Faulty variant of parseCopy: a relative dest is taken without a workdir.
parseCopyNoWorkdir(s, workdir) ==
    LET parts == Fields(s)
    IN IF Len(parts) # 2
       THEN [ok |-> FALSE, src |-> << >>, dest |-> << >>]
       ELSE [ok |-> TRUE, src |-> parts[1],
             dest |-> IF IsAbs(parts[2]) \/ workdir = << >> THEN parts[2]
                      ELSE filepathJoin(workdir, parts[2])]

parseCopy(s, workdir) ==
    LET parts == Fields(s)
        no == [ok |-> FALSE, src |-> << >>, dest |-> << >>]
    IN IF Len(parts) # 2 THEN no
       ELSE IF ~IsAbs(parts[2])
       THEN IF workdir = << >> THEN no
            ELSE [ok |-> TRUE, src |-> parts[1],
                  dest |-> filepathJoin(workdir, parts[2])]
       ELSE [ok |-> TRUE, src |-> parts[1], dest |-> parts[2]]

\* "linux/" + runtime.GOARCH
defaultPlatforms == << << "linux", "/", GOARCH >> >>

imageTagOfDir(path) ==
    << "import", "/",
       << "sha256", IF path = << >> THEN path ELSE SubSeq(path, 1, Len(path) - 1) >>,
       ":", "latest" >>

\* Image name a local archive is tagged with; the digest of the path is kept
\* symbolic.
imageTag(path) == << "import", "/", << "sha256", path >>, ":", "latest" >>

\* Root descriptor of the image an archive holds.
archiveTarget(path) == << "root", path >>

TagSet == { imageTag(p) : p \in FromSet }

\* ------------------------------------------------------------------ engine
\* An engine call made with the caller's context fails once it is cancelled.
Reachable == ~cancelled

\* exec needs the container and a running task (loadTask).
CanExec(id) == Reachable /\ id \in existing /\ id \in running

\* Outcomes of an exec in container id: "ok" needs a live task.
ExecOutcomes(id) == IF CanExec(id) THEN { "ok", "fail" } ELSE { "fail" }

NoCopy == [src |-> <<>>, cross |-> FALSE, inMap |-> FALSE, reached |-> FALSE,
           known |-> FALSE, source |-> 0, dest |-> 0, tars |-> {},
           failed |-> FALSE, unknown |-> FALSE]

NoStageRun == [pi |-> 0, si |-> 0, h |-> 0, state0 |-> << >>,
               stepsOK |-> FALSE,
               stopCalled |-> FALSE, stopOK |-> FALSE,
               exportCalled |-> FALSE, exportOK |-> FALSE,
               finished |-> FALSE]

\* --------------------------------------------------------------- stepState
defaultShell == "/bin/sh"

\* State of the orchestrator before any stage has made a stepState.
NoState == [shell |-> "", workdir |-> << >>, env |-> << >>]

\* Faulty variant of newStepState: the state of the previous stage is used.
newStepStateReused == state

newStepState == [shell |-> defaultShell, workdir |-> << >>, env |-> << >>]

\* Faulty variant of mapsCopy: a key already in dst keeps its value.
mapsCopyKeep(dst, src) == dst @@ src

\* maps.Copy(dst, src): dst with every pair of src written into it.
mapsCopy(dst, src) == src @@ dst

\* stepState.apply: the receiver after the call.
apply(s, step) ==
    [shell |-> IF step.shell # "" THEN step.shell ELSE s.shell,
     workdir |-> IF step.workdir # << >> THEN step.workdir ELSE s.workdir,
     env |-> mapsCopy(s.env, step.env)]

\* Faulty variant of resolve: the new state shares the receiver's env map.
resolveAliased(s, step) ==
    [resolved |-> apply(s, step),
     receiver |-> [s EXCEPT !.env = mapsCopy(s.env, step.env)]]

\* stepState.resolve: the state it returns and the receiver after the call.
\* The env of the result is a new map that s.env and then step.env are
\* copied into.
resolve(s, step) ==
    [resolved |->
        [shell |-> IF step.shell # "" THEN step.shell ELSE s.shell,
         workdir |-> IF step.workdir # << >> THEN step.workdir ELSE s.workdir,
         env |-> mapsCopy(mapsCopy(<< >>, s.env), step.env)],
     receiver |-> s]

\* hasOp := step.Run != "" || step.Copy != ""
hasOp(step) == step.run # "" \/ step.copy # << >>

\* ------------------------------------------------------------- orchestrator
Stage == recipe[si]
Platform == platforms[pi]
ThisRun == Len(stageRuns)
NoCtr == [h |-> 0, id |-> <<>>, platform |-> <<>>]

\* Faulty variant of Register: only the last container is remembered.
RegisterReplace(cs, c) == << c >>

\* recipe.containers = append(recipe.containers, ctr)
Register(cs, c) == Append(cs, c)

\* Faulty variant of makeStages: the map of the previous platform is kept.
makeStagesShared == stages

\* stages := make(map[string]*runtime.Container)
makeStages == << >>

\* Faulty variant of StagesPut: an unnamed stage is entered under its number.
StagesPutLabel(m, name, index, h) ==
    ((IF name # <<>> THEN name ELSE Itoa(index + 1)) :> h) @@ m

\* if stage.Name != "" { stages[stage.Name] = ctr }
StagesPut(m, name, index, h) ==
    IF name # <<>> THEN (name :> h) @@ m ELSE m

\* Faulty variants of ShouldExport: every stage is exported, and the
\* transient stages are exported instead of the others.
ShouldExportAlways(stage) == TRUE
ShouldExportInverted(stage) == stage.transient

\* if !stage.Transient { Stop; Export }
ShouldExport(stage) == ~stage.transient

\* Faulty variant of StageFailed: the error of a stage is ignored.
StageFailedNever(e) == FALSE

\* if err := r.buildStage(...); err != nil { return ... }
StageFailed(e) == e # "nil"

\* The component specifications at rest.
NoResolve == [step |-> NoStep, before |-> NoState, result |-> NoState,
              after |-> NoState, made |-> FALSE]
\* The nil error of executeSteps.
NoError == [kind |-> "nil", code |-> 0, stderr |-> ""]

StateIdle ==
    /\ calls = << >>
    /\ resolved = NoResolve
StepsIdle ==
    /\ steps = << >> /\ work = << >> /\ trace = << >>
    /\ serr = NoError
NoParse == [made |-> FALSE, ok |-> FALSE, src |-> << >>, dest |-> << >>]
NoStaged == [made |-> FALSE, ok |-> FALSE, stage |-> << >>, path |-> << >>]
ParseIdle ==
    /\ input = [s |-> << >>, workdir |-> << >>]
    /\ parsed = NoParse
    /\ staged = NoStaged
NoBox == [exists |-> FALSE, task |-> "none"]
NoCall == [op |-> "none", before |-> NoBox, after |-> NoBox, result |-> "nil",
           faulted |-> FALSE, at |-> "none", cleaned |-> TRUE]
LifeIdle ==
    /\ box = NoBox
    /\ lastOp = NoCall
    /\ prevOp = NoCall
NoConn == [pc |-> "free", req |-> "none", out |-> << >>, taken |-> 0,
           ran |-> "none", tmp |-> 0, counted |-> FALSE, reported |-> -1,
           atRead |-> -1]
ServerIdle ==
    /\ conns = << >>
    /\ builds = 0
    /\ mu = 0
    /\ done = FALSE
    /\ stopping = 0
    /\ crashed = FALSE
NoExecCall == [pc |-> "idle", n |-> 0]
ExecIdle ==
    /\ execSeq = 0
    /\ execCalls = << >>
    /\ execAdds = << >>
    /\ execIds = << >>
NoMerge == [made |-> FALSE, list |-> << >>]
EnvIdle ==
    /\ envIn = [base |-> << >>, overrides |-> << >>]
    /\ envOut = NoMerge
TagIdle ==
    /\ tagIn = << >>
    /\ tagOut = << >>
LeaseIdle ==
    /\ xpc = "idle"
    /\ lease = "none"
    /\ blobs = {}
    /\ held = {}
    /\ xlog = << >>
    /\ xerr = "none"
    /\ xcancelled = FALSE
    /\ xindex = FALSE
PipeIdle ==
    /\ cdir = "host" /\ ctotal = 0 /\ cwritten = 0
    /\ pstate = "idle" /\ perr = "none" /\ wend = "open" /\ errc = "empty"
    /\ copier = "idle" /\ stdinEOF = FALSE /\ footer = FALSE
    /\ cexit = "none" /\ cpc = "idle" /\ cret = "none" /\ ccancelled = FALSE
IdIdle ==
    /\ inames = << >> /\ iplats = << >>
    /\ ipi = 0 /\ isi = 0 /\ ipc = "idle"
    /\ istarted = << >> /\ ilive = {} /\ imap = << >> /\ ikilled = {}
AwaitIdle ==
    /\ epc = "idle" /\ eproc = "none" /\ elog = << >> /\ eret = "none"
    /\ estdin = FALSE /\ eonce = FALSE /\ ecloses = 0 /\ eeofs = 0
    /\ ereads = 0 /\ erpc = << >> /\ ecloser = "none"
StopIdle ==
    /\ listener = "none" /\ aloop = "none" /\ closing = 0 /\ signalled = FALSE
TargetIdle ==
    /\ troot = "none" /\ tplat = "none" /\ tentry = << >> /\ tpc = "idle"
    /\ tsel = "none" /\ tman = "none" /\ ttarget = "none"
UnitsIdle == StateIdle /\ StepsIdle /\ ParseIdle /\ LifeIdle /\ ServerIdle /\ ExecIdle /\ EnvIdle /\ TagIdle /\ LeaseIdle /\ PipeIdle /\ IdIdle /\ AwaitIdle /\ StopIdle /\ TargetIdle

\* The orchestrator at rest, for the specifications of single components.
MainIdle ==
    /\ recipe = << >> /\ optsPlatforms = << >>
    /\ pc = "Done"
    /\ platforms = << >>
    /\ pi = 0 /\ si = 0 /\ ki = 0 /\ di = 0
    /\ containers = << >>
    /\ ctr = NoCtr
    /\ stages = << >>
    /\ err = "nil"
    /\ cancelled = FALSE
    /\ existing = {} /\ running = {}
    /\ images = [t \in TagSet |-> << "none" >>]
    /\ files = {} /\ complete = {}
    /\ destroys = << >>
    /\ stageRuns = << >>
    /\ opsAfterFail = {}
    /\ fsAtFail = << {}, {} >>
    /\ lastCopy = NoCopy

Init ==
    /\ recipe \in RecipeSet
    /\ optsPlatforms \in PlatformLists
    /\ pc = "Run"
    /\ platforms = optsPlatforms
    /\ pi = 0 /\ si = 0 /\ ki = 0 /\ di = 0
    /\ containers = <<>>
    /\ ctr = NoCtr
    /\ stages = <<>>
    /\ err = "nil"
    /\ cancelled = FALSE
    /\ existing = {} /\ running = {}
    /\ images = [t \in TagSet |-> <<"none">>]
    /\ files = {} /\ complete = {}
    /\ destroys = <<>>
    /\ stageRuns = <<>>
    /\ opsAfterFail = {}
    /\ fsAtFail = <<{}, {}>>
    /\ lastCopy = NoCopy
    /\ state = NoState
    /\ UnitsIdle

\* Engine operations are issued: remembered when a stage has already failed.
Issue(ops) ==
    opsAfterFail' = IF err # "nil" THEN opsAfterFail \cup ops ELSE opsAfterFail

\* The stage returned e (sets pc, pi, si, di, err, fsAtFail).  buildPlatform and build return at the
\* first error, which runs the deferred destroyContainers; otherwise the loops
\* go on to the next stage, the next platform, or the end of build.
Continue(e) ==
    /\ err' = IF err # "nil" THEN err ELSE e
    /\ fsAtFail' = IF err = "nil" /\ e # "nil" THEN << files', complete' >>
                   ELSE fsAtFail
    /\ IF StageFailed(e)
       THEN /\ pc' = "Cleanup" /\ di' = 1
            /\ UNCHANGED << pi, si >>
       ELSE IF si < Len(recipe)
       THEN /\ pc' = "Stage" /\ si' = si + 1
            /\ UNCHANGED << pi, di >>
       ELSE IF pi < Len(platforms)
       THEN /\ pc' = "Platform" /\ pi' = pi + 1
            /\ UNCHANGED << si, di >>
       ELSE /\ pc' = "Cleanup" /\ di' = 1
            /\ UNCHANGED << pi, si >>

\* executeSteps returned nil.
AfterSteps ==
    IF ShouldExport(Stage)
    THEN /\ pc' = "Stop"
         /\ err' = err /\ fsAtFail' = fsAtFail
         /\ UNCHANGED << pi, si, di >>
    ELSE Continue("nil")

\* Run: default the platforms, create opts.Output, build.
RunStart ==
    /\ pc = "Run"
    /\ platforms' = IF Len(optsPlatforms) = 0 THEN defaultPlatforms
                    ELSE optsPlatforms
    /\ \E ok \in BOOLEAN :
         IF ok
         THEN /\ pc' = "Platform" /\ pi' = 1
              /\ UNCHANGED << err, fsAtFail >>
         ELSE /\ pc' = "Done" /\ pi' = pi
              /\ err' = "ErrFileSystemOperation"
              /\ fsAtFail' = << files, complete >>
    /\ UNCHANGED << inputs, units, state, si, ki, di, containers, ctr, stages, cancelled,
                    engine, fs, destroys, stageRuns, opsAfterFail, lastCopy >>

\* buildPlatform up to its stage loop: create the platform's output
\* directory and a fresh stage map.
BuildPlatform ==
    /\ pc = "Platform"
    /\ \E ok \in BOOLEAN :
         IF ok
         THEN /\ stages' = makeStages
              /\ pc' = "Stage" /\ si' = 1
              /\ UNCHANGED << err, fsAtFail, di >>
         ELSE /\ err' = "ErrFileSystemOperation"
              /\ fsAtFail' = << files, complete >>
              /\ pc' = "Cleanup" /\ di' = 1
              /\ UNCHANGED << stages, si >>
    /\ UNCHANGED << inputs, units, state, platforms, pi, ki, containers, ctr, cancelled,
                    engine, fs, destroys, stageRuns, opsAfterFail, lastCopy >>

\* Outcomes of Runtime.StartContainer: the import, tag or unpack fails; the
\* stale container is removed and then resolve, create or task start fails
\* (a created container is deleted again); or the container runs.
StartOutcomes == IF Reachable THEN { "import", "create", "ok" } ELSE { "import" }

\* buildStage from ParseFrom to the call of executeSteps.
BuildStage ==
    /\ pc = "Stage"
    /\ LET id == containerID(Stage.name, si - 1, Platform)
           tag == imageTag(Stage.from)
           h == Len(destroys) + 1
           c == [h |-> h, id |-> id, platform |-> Platform]
           run == [NoStageRun EXCEPT !.pi = pi, !.si = si]
       IN \E out \in StartOutcomes \cup { "parse" } :
            /\ UNCHANGED fs
            /\ IF out = "parse"
               THEN /\ UNCHANGED << engine, containers, ctr, stages, destroys,
                                    opsAfterFail, ki, state >>
                    /\ stageRuns' = Append(stageRuns, [run EXCEPT !.finished = TRUE])
                    /\ Continue("ErrParse")
               ELSE
               /\ Issue({ "StartContainer" })
               /\ CASE out = "import" ->
                       /\ UNCHANGED << engine, containers, ctr, stages,
                                       destroys, ki, state >>
                       /\ stageRuns' = Append(stageRuns,
                                              [run EXCEPT !.finished = TRUE])
                       /\ Continue("ErrRuntime")
                    [] out = "create" ->
                       /\ images' = [images EXCEPT ![tag] = archiveTarget(Stage.from)]
                       /\ existing' = existing \ { id }
                       /\ running' = running \ { id }
                       /\ UNCHANGED << containers, ctr, stages, destroys, ki,
                                       state >>
                       /\ stageRuns' = Append(stageRuns,
                                              [run EXCEPT !.finished = TRUE])
                       /\ Continue("ErrRuntime")
                    [] out = "ok" ->
                       /\ images' = [images EXCEPT ![tag] = archiveTarget(Stage.from)]
                       /\ existing' = existing \cup { id }
                       /\ running' = running \cup { id }
                       /\ destroys' = Append(destroys, 0)
                       /\ ctr' = c
                       /\ containers' = Register(containers, c)
                       /\ stages' = StagesPut(stages, Stage.name, si - 1, c)
                       /\ state' = newStepState
                       /\ IF Len(Stage.steps) > 0
                          THEN /\ pc' = "Steps" /\ ki' = 1
                               /\ stageRuns' = Append(stageRuns,
                                    [run EXCEPT !.h = h, !.state0 = state'])
                               /\ UNCHANGED << pi, si, di, err, fsAtFail >>
                          ELSE /\ ki' = ki
                               /\ stageRuns' = Append(stageRuns,
                                    [run EXCEPT !.h = h, !.state0 = state',
                                                !.stepsOK = TRUE,
                                                !.finished = ~ShouldExport(Stage)])
                               /\ AfterSteps
    /\ UNCHANGED << inputs, units, platforms, cancelled, lastCopy >>

\* executeStageCopy: look the stage up, then run the tar producer in the
\* source container and the tar consumer in the destination container; the
\* consumer's error is returned first, then the producer's.
executeStageCopy(m, stage, dest, prod, cons) ==
    IF stage \notin DOMAIN m
    THEN [known |-> FALSE, source |-> 0, tars |-> {}, e |-> "ErrCopy",
          unknown |-> TRUE]
    ELSE [known |-> TRUE, source |-> m[stage].h,
          tars |-> { << "tar cf", m[stage].h >>, << "tar xf", dest.h >> },
          e |-> IF cons # "ok" THEN "ErrCopy"
                ELSE IF prod # "ok" THEN "ErrCopy" ELSE "nil",
          unknown |-> FALSE]

\* executeHostCopy: stat the source, then pipe a tar stream into the
\* container.
executeHostCopy(dest, stat, cons) ==
    IF ~stat
    THEN [known |-> FALSE, source |-> 0, tars |-> {}, e |-> "ErrCopy",
          unknown |-> FALSE]
    ELSE [known |-> FALSE, source |-> 0, tars |-> { << "tar xf", dest.h >> },
          e |-> IF cons # "ok" THEN "ErrCopy" ELSE "nil", unknown |-> FALSE]

\* Outcomes of the tar producer of a cross-stage copy from stage.
ProducerOutcomes(m, stage) ==
    IF stage \in DOMAIN m THEN ExecOutcomes(m[stage].id) ELSE { "fail" }

\* executeCopy after parseCopy: mkdir -p of the destination directory, then
\* the cross-stage or the host copy.
executeCopy(src, m, dest, mk, stat, prod, cons) ==
    LET p == parseStageCopy(src)
    IN  IF mk # "ok"
        THEN [known |-> FALSE, source |-> 0, tars |-> {}, e |-> "ErrCopy",
              unknown |-> FALSE]
        ELSE IF p.ok THEN executeStageCopy(m, p.stage, dest, prod, cons)
        ELSE executeHostCopy(dest, stat, cons)

\* The stage's step ki returned e (sets pc, pi, si, ki, di, err, fsAtFail,
\* stageRuns): executeSteps goes on, returns the error, or returns nil.
StepDone(e) ==
    IF e # "nil"
    THEN /\ stageRuns' = [stageRuns EXCEPT ![ThisRun].finished = TRUE]
         /\ ki' = ki
         /\ Continue(e)
    ELSE IF ki < Len(Stage.steps)
    THEN /\ ki' = ki + 1
         /\ UNCHANGED << pc, pi, si, di, err, fsAtFail, stageRuns >>
    ELSE /\ ki' = ki
         /\ stageRuns' = [stageRuns EXCEPT ![ThisRun].stepsOK = TRUE,
                             ![ThisRun].finished = ~ShouldExport(Stage)]
         /\ AfterSteps

\* Outcomes of a run step: exit code 0, a non-zero exit code, or an exec
\* that could not be made.
RunOutcomes(id) == IF CanExec(id) THEN { "ok", "exit", "fail" } ELSE { "fail" }

\* executeStep for a step without children: an operation runs on the resolved
\* state, after mkdir -p of a non-empty resolved workdir; any other step is
\* applied to the stage's state.
ExecStep ==
    /\ pc = "Steps"
    /\ UNCHANGED << inputs, units, platforms, containers, ctr, stages, cancelled,
                    engine, fs, destroys >>
    /\ LET step == Stage.steps[ki]
           rs == resolve(state, step)
       IN IF ~hasOp(step)
          THEN /\ state' = apply(state, step)
               /\ Issue({})
               /\ UNCHANGED lastCopy
               /\ StepDone("nil")
          ELSE
          /\ state' = rs.receiver
          /\ Issue({ "Exec" })
          /\ \E wd \in (IF rs.resolved.workdir # << >>
                        THEN ExecOutcomes(ctr.id) ELSE { "ok" }) :
               IF wd # "ok"
               THEN /\ UNCHANGED lastCopy
                    /\ StepDone("ErrRuntime")
               ELSE IF step.run # ""
               THEN \E out \in RunOutcomes(ctr.id) :
                      /\ UNCHANGED lastCopy
                      /\ StepDone(CASE out = "ok" -> "nil"
                                    [] out = "exit" -> "ErrCommandFailed"
                                    [] OTHER -> "ErrRuntime")
               ELSE \E mk \in ExecOutcomes(ctr.id), stat \in BOOLEAN,
                       prod \in ProducerOutcomes(stages, parseStageCopy(step.copy).stage),
                       cons \in ExecOutcomes(ctr.id) :
                      LET r == executeCopy(step.copy, stages, ctr, mk, stat, prod, cons)
                      IN /\ lastCopy' = [src |-> step.copy,
                                         cross |-> parseStageCopy(step.copy).ok,
                                         inMap |-> parseStageCopy(step.copy).stage
                                                     \in DOMAIN stages,
                                         reached |-> mk = "ok",
                                         known |-> r.known, source |-> r.source,
                                         dest |-> ctr.h, tars |-> r.tars,
                                         failed |-> r.e # "nil",
                                         unknown |-> r.unknown]
                         /\ StepDone(r.e)

\* Container.Stop: a missing container or task is success; otherwise the
\* task is killed and deleted.
Stop ==
    /\ pc = "Stop"
    /\ Issue({ "Stop" })
    /\ UNCHANGED << inputs, units, state, platforms, ki, containers, ctr, stages, cancelled,
                    existing, images, fs, destroys, lastCopy >>
    /\ \E ok \in (IF Reachable THEN BOOLEAN ELSE { FALSE }) :
         IF ok
         THEN /\ running' = running \ { ctr.id }
              /\ stageRuns' = [stageRuns EXCEPT ![ThisRun].stopCalled = TRUE,
                                                ![ThisRun].stopOK = TRUE]
              /\ pc' = "Export"
              /\ UNCHANGED << pi, si, di, err, fsAtFail >>
         ELSE /\ running' = running
              /\ stageRuns' = [stageRuns EXCEPT ![ThisRun].stopCalled = TRUE,
                                                ![ThisRun].finished = TRUE]
              /\ Continue("ErrRuntime")

\* Outcomes of Container.Export: an error before the archive file is
\* created, os.Create fails, the archive write fails, or success.
ExportOutcomes ==
    IF Reachable /\ ctr.id \in existing
    THEN { "early", "create", "write", "ok" } ELSE { "early" }

\* The export of the current stage; stored is the image store once the
\* export target has been prepared.
ExportWith(stored) ==
    /\ pc = "Export"
    /\ Issue({ "Export" })
    /\ UNCHANGED << inputs, units, state, platforms, ki, containers, ctr, stages, cancelled,
                    existing, running, destroys, lastCopy >>
    /\ LET path == exportPath(platformOutput(platforms, Platform))
       IN \E out \in ExportOutcomes :
            /\ images' = IF out = "early" THEN images ELSE stored
            /\ files' = IF out \in { "write", "ok" } THEN files \cup { path }
                        ELSE files
            /\ complete' = CASE out = "ok" -> complete \cup { path }
                             [] out = "write" -> complete \ { path }
                             [] OTHER -> complete
            /\ stageRuns' = [stageRuns EXCEPT ![ThisRun].exportCalled = TRUE,
                                              ![ThisRun].exportOK = (out = "ok"),
                                              ![ThisRun].finished = TRUE]
            /\ Continue(IF out = "ok" THEN "nil" ELSE "ErrRuntime")

\* buildExportTarget: the mutated manifest, config and index are new blobs;
\* no image record is written.
buildExportTarget(imgs) == imgs

\* updateImage: the image record of the container's image is pointed at the
\* mutated target.
updateImage(imgs) ==
    [imgs EXCEPT ![imageTag(Stage.from)] = << "mutated", ctr.h >>]

\* Container.Export that exports the ephemeral target descriptor.
Export == ExportWith(buildExportTarget(images))

\* Container.Export that goes through updateImage and exports by name.
ExportUpdateImage == ExportWith(updateImage(images))

\* destroyContainers: Destroy of the next registered container, with the
\* context build was called with.  Destroy returns nothing: when the container
\* cannot be loaded it logs a warning and leaves it alone; otherwise the task
\* is killed and the container deleted with its snapshot.
Destroy ==
    /\ pc = "Cleanup"
    /\ di <= Len(containers)
    /\ Issue({ "Destroy" })
    /\ LET c == containers[di]
       IN /\ destroys' = [destroys EXCEPT ![c.h] = @ + 1]
          /\ IF Reachable
             THEN /\ existing' = existing \ { c.id }
                  /\ running' = running \ { c.id }
             ELSE UNCHANGED << existing, running >>
    /\ di' = di + 1
    /\ UNCHANGED << inputs, units, state, pc, platforms, pi, si, ki, containers, ctr, stages,
                    err, cancelled, images, fs, stageRuns, fsAtFail, lastCopy >>

\* build returns once the deferred destroyContainers has finished.
Return ==
    /\ pc = "Cleanup"
    /\ di > Len(containers)
    /\ pc' = "Done"
    /\ UNCHANGED << inputs, units, state, platforms, pi, si, ki, di, containers, ctr, stages,
                    err, cancelled, engine, fs, history >>

\* The client disconnects while Run is executing: the context is cancelled.
Cancel ==
    /\ pc # "Done"
    /\ ~cancelled
    /\ cancelled' = TRUE
    /\ UNCHANGED << inputs, units, state, pc, platforms, pi, si, ki, di, containers, ctr,
                    stages, err, engine, fs, history >>

Next ==
    \/ RunStart
    \/ BuildPlatform
    \/ BuildStage
    \/ ExecStep
    \/ Stop
    \/ Export
    \/ ExportUpdateImage
    \/ Destroy
    \/ Return
    \/ Cancel

Spec == Init /\ [][Next]_vars

\* ------------------------------------------------- stepState on its own
\* Operation steps: a run without modifiers, and runs and copies with a
\* shell, a workdir, an env, or all of them of their own.
OperationSet ==
    { [NoStep EXCEPT !.run = "cmd"],
      [NoStep EXCEPT !.run = "cmd", !.shell = "/bin/zsh"],
      [NoStep EXCEPT !.copy = << "/", "f" >>, !.workdir = << "/", "tmp" >>],
      [NoStep EXCEPT !.run = "cmd", !.env = [k \in { "A" } |-> "2"]],
      [NoStep EXCEPT !.copy = << "/", "f" >>, !.env = [k \in { "B" } |-> "1"]],
      [NoStep EXCEPT !.run = "cmd", !.shell = "/bin/zsh",
                     !.env = [k \in { "A", "B" } |-> "2"]] }

StateInit ==
    /\ MainIdle
    /\ state = newStepState
    /\ UnitsIdle

\* A standalone modifier step: executeStep applies it to the persistent state.
Apply ==
    /\ Len(calls) < MaxApply
    /\ \E step \in ModifierSet :
         /\ state' = apply(state, step)
         /\ calls' = Append(calls, [step |-> step, after |-> state'])
    /\ UNCHANGED << main, resolved, stepsUnit, parseUnit, lifeUnit, serverUnit, execUnit, envUnit, tagUnit, leaseUnit, pipeUnit, idUnit, awaitUnit, stopUnit, targetUnit >>

\* An operation step: executeOperation resolves it against the persistent
\* state, which the steps that follow go on from.
Resolve ==
    /\ \E step \in OperationSet :
         LET r == resolve(state, step)
         IN /\ state' = r.receiver
            /\ resolved' = [step |-> step, before |-> state,
                            result |-> r.resolved, after |-> state',
                            made |-> TRUE]
    /\ UNCHANGED << main, calls, stepsUnit, parseUnit, lifeUnit, serverUnit, execUnit, envUnit, tagUnit, leaseUnit, pipeUnit, idUnit, awaitUnit, stopUnit, targetUnit >>

StateNext == Apply \/ Resolve

StateSpec == StateInit /\ [][StateNext]_vars

\* ---------------------------------------------- executeSteps on its own
\* Steps without children: runs and copies with and without modifiers of
\* their own, a step with both a run and a copy, modifier steps, and the step
\* with no field set.
LeafSet ==
    { [NoStep EXCEPT !.run = "cmd"],
      [NoStep EXCEPT !.run = "cmd", !.workdir = << "/", "tmp" >>,
                     !.env = [k \in { "A" } |-> "2"]],
      [NoStep EXCEPT !.run = "cmd", !.copy = << "/", "f" >>, !.shell = "/bin/zsh"],
      [NoStep EXCEPT !.copy = << "/", "f" >>],
      [NoStep EXCEPT !.shell = "/bin/bash", !.env = [k \in { "A" } |-> "1"]],
      NoStep }

\* Steps with children: a group with modifiers, and one that has a run too.
GroupSet ==
    { [g EXCEPT !.steps = c] :
        g \in { [NoStep EXCEPT !.workdir = << "/", "app" >>,
                               !.env = [k \in { "B" } |-> "1"]],
                [NoStep EXCEPT !.run = "cmd", !.shell = "/bin/zsh"] },
        c \in UNION { [1..n -> LeafSet] : n \in 1..MaxChildren } }

StepLists == SeqsUpTo(LeafSet \cup GroupSet, MaxTop)

\* What Container.Exec returns for a run: a result with an exit code and the
\* captured stderr, or an error.
ExecResults ==
    { [failed |-> FALSE, exitCode |-> 0, stderr |-> ""],
      [failed |-> FALSE, exitCode |-> 1, stderr |-> "boom"],
      [failed |-> FALSE, exitCode |-> 2, stderr |-> ""],
      [failed |-> TRUE, exitCode |-> 0, stderr |-> ""] }

\* Faulty variant of runError: a non-zero exit code is not an error.
runErrorNever(result) ==
    IF result.failed THEN [kind |-> "ErrRuntime", code |-> 0, stderr |-> ""]
    ELSE NoError

\* executeOperation's run case: Exec's error, ErrCommandFailed with the exit
\* code and stderr when the code is not 0, or nil.
runError(result) ==
    IF result.failed THEN [kind |-> "ErrRuntime", code |-> 0, stderr |-> ""]
    ELSE IF result.exitCode # 0
    THEN [kind |-> "ErrCommandFailed", code |-> result.exitCode,
          stderr |-> result.stderr]
    ELSE NoError

\* Faulty variant of branch: an operation is looked for before children.
branchOperationFirst(step) ==
    IF hasOp(step) THEN "operation"
    ELSE IF Len(step.steps) > 0 THEN "group" ELSE "modifier"

\* executeStep's dispatch.
branch(step) ==
    IF Len(step.steps) > 0 THEN "group"
    ELSE IF hasOp(step) THEN "operation" ELSE "modifier"

StepsInit ==
    /\ MainIdle /\ StateIdle /\ ParseIdle /\ LifeIdle /\ ServerIdle /\ ExecIdle /\ EnvIdle /\ TagIdle /\ LeaseIdle /\ PipeIdle /\ IdIdle /\ AwaitIdle /\ StopIdle /\ TargetIdle
    /\ state = newStepState
    /\ steps \in StepLists
    /\ work = steps
    /\ trace = << >>
    /\ serr = NoError

NoEvent == [step |-> NoStep, branch |-> "", before |-> NoState,
            after |-> NoState, resolved |-> NoState, mkdir |-> "none",
            op |-> "none", result |-> [failed |-> FALSE, exitCode |-> 0,
                                       stderr |-> ""],
            err |-> NoError]

\* The next step of the innermost executeSteps loop that has one left.
Ready == serr = NoError /\ work # << >>

\* executeStep, group: apply the step, then executeSteps on its children
\* before the rest of the enclosing list.
Group ==
    /\ Ready /\ branch(Head(work)) = "group"
    /\ state' = apply(state, Head(work))
    /\ work' = Head(work).steps \o Tail(work)
    /\ trace' = Append(trace, [NoEvent EXCEPT !.step = Head(work),
                                 !.branch = "group", !.before = state,
                                 !.after = state'])
    /\ UNCHANGED << main, stateUnit, parseUnit, lifeUnit, steps, serr, serverUnit, execUnit, envUnit, tagUnit, leaseUnit, pipeUnit, idUnit, awaitUnit, stopUnit, targetUnit >>

\* executeStep, operation: executeOperation.
Operation ==
    /\ Ready /\ branch(Head(work)) = "operation"
    /\ LET step == Head(work)
           rs == resolve(state, step)
           ev == [NoEvent EXCEPT !.step = step, !.branch = "operation",
                                 !.before = state, !.after = rs.receiver,
                                 !.resolved = rs.resolved]
       IN /\ state' = rs.receiver
          /\ \E mk \in (IF rs.resolved.workdir # << >> THEN BOOLEAN ELSE { TRUE }) :
               IF ~mk
               THEN LET e == [kind |-> "ErrRuntime", code |-> 0, stderr |-> ""]
                    IN /\ trace' = Append(trace, [ev EXCEPT !.mkdir = "failed",
                                                            !.err = e])
                       /\ serr' = e
                       /\ work' = work
               ELSE IF step.run # ""
               THEN \E res \in ExecResults :
                      /\ trace' = Append(trace,
                            [ev EXCEPT !.mkdir = IF rs.resolved.workdir # << >>
                                                 THEN "ok" ELSE "none",
                                       !.op = "run", !.result = res,
                                       !.err = runError(res)])
                      /\ serr' = runError(res)
                      /\ work' = IF runError(res) = NoError THEN Tail(work)
                                 ELSE work
               ELSE \E ok \in BOOLEAN :
                      LET e == IF ok THEN NoError
                               ELSE [kind |-> "ErrCopy", code |-> 0, stderr |-> ""]
                      IN /\ trace' = Append(trace,
                              [ev EXCEPT !.mkdir = IF rs.resolved.workdir # << >>
                                                 THEN "ok" ELSE "none",
                                         !.op = "copy", !.err = e])
                         /\ serr' = e
                         /\ work' = IF ok THEN Tail(work) ELSE work
    /\ UNCHANGED << main, stateUnit, parseUnit, lifeUnit, steps, serverUnit, execUnit, envUnit, tagUnit, leaseUnit, pipeUnit, idUnit, awaitUnit, stopUnit, targetUnit >>

\* executeStep, standalone modifiers: apply the step.
Modifier ==
    /\ Ready /\ branch(Head(work)) = "modifier"
    /\ state' = apply(state, Head(work))
    /\ work' = Tail(work)
    /\ trace' = Append(trace, [NoEvent EXCEPT !.step = Head(work),
                                 !.branch = "modifier", !.before = state,
                                 !.after = state'])
    /\ UNCHANGED << main, stateUnit, parseUnit, lifeUnit, steps, serr, serverUnit, execUnit, envUnit, tagUnit, leaseUnit, pipeUnit, idUnit, awaitUnit, stopUnit, targetUnit >>

StepsNext == Group \/ Operation \/ Modifier

StepsSpec == StepsInit /\ [][StepsNext]_vars

\* ------------------------------------------------ the copy string parsers
\* Tokens of the strings the parsers are given: a fragment, the stage
\* separator, the path separator and white space.
Alphabet == { "a", ":", "/", " " }
Strings == UNION { [1..n -> Alphabet] : n \in 0..MaxLen }

\* Working directories: none, absolute ones, the root, and a relative one.
ParseWorkdirs == { << >>, << "/", "w" >>, << "/" >>, << "w" >> }

ParseInit ==
    /\ MainIdle /\ StateIdle /\ StepsIdle /\ LifeIdle /\ ServerIdle /\ ExecIdle /\ EnvIdle /\ TagIdle /\ LeaseIdle /\ PipeIdle /\ IdIdle /\ AwaitIdle /\ StopIdle /\ TargetIdle
    /\ state = NoState
    /\ input \in [s : Strings, workdir : ParseWorkdirs]
    /\ parsed = NoParse
    /\ staged = NoStaged

\* parseCopy is called with the input.
ParseCopy ==
    /\ ~parsed.made
    /\ LET r == parseCopy(input.s, input.workdir)
       IN parsed' = [made |-> TRUE, ok |-> r.ok, src |-> r.src, dest |-> r.dest]
    /\ UNCHANGED << main, state, stateUnit, stepsUnit, lifeUnit, input, staged, serverUnit, execUnit, envUnit, tagUnit, leaseUnit, pipeUnit, idUnit, awaitUnit, stopUnit, targetUnit >>

\* parseStageCopy is called with the input string.
ParseStageCopy ==
    /\ ~staged.made
    /\ LET r == parseStageCopy(input.s)
       IN staged' = [made |-> TRUE, ok |-> r.ok, stage |-> r.stage,
                     path |-> r.path]
    /\ UNCHANGED << main, state, stateUnit, stepsUnit, lifeUnit, input, parsed, serverUnit, execUnit, envUnit, tagUnit, leaseUnit, pipeUnit, idUnit, awaitUnit, stopUnit, targetUnit >>

ParseNext == ParseCopy \/ ParseStageCopy

ParseSpec == ParseInit /\ [][ParseNext]_vars

\* ------------------------------------------------ the container lifecycle
\* The engine requests of the lifecycle calls. Each request may fail for a
\* reason of the engine's own; f is the set of requests that do so in a call.
\* The requests of remove are apart from the same requests made later.
StatusCalls == { "load", "task", "status" }
StopCalls == { "load", "task", "kill", "tdelete" }
DestroyCalls == { "load", "task", "kill", "tdelete", "delete" }
StartCalls == { "import", "rload", "rtask", "rkill", "rtdelete", "rdelete",
                "resolve", "create", "newtask", "start", "tdelete", "delete" }

\* The requests of StartContainer that take a task or a container away: those
\* of remove, and the deletions after a failed task start. Their errors are
\* not returned.
CleanupCalls == { "rload", "rtask", "rtdelete", "rdelete", "tdelete", "delete" }

\* client.LoadContainer and ctr.Task: found, not found, or another error.
loadContainer(b, failed) ==
    IF failed THEN "error" ELSE IF b.exists THEN "ok" ELSE "notfound"
ctrTask(b, failed) ==
    IF failed THEN "error" ELSE IF b.task # "none" THEN "ok" ELSE "notfound"

\* task.Kill: the process of the task ends; the task itself remains.
taskKill(b, failed) ==
    IF failed \/ b.task = "none" THEN b ELSE [b EXCEPT !.task = "stopped"]

\* task.Delete: the task is gone, unless the request fails.
taskDelete(b, failed) ==
    IF failed THEN [box |-> b, err |-> TRUE]
    ELSE [box |-> [b EXCEPT !.task = "none"], err |-> FALSE]

\* ctr.Delete with snapshot cleanup: the engine refuses while a task is left.
ctrDelete(b, failed) ==
    IF failed \/ b.task # "none" THEN [box |-> b, err |-> TRUE]
    ELSE [box |-> NoBox, err |-> FALSE]

containerStatusTaskless(b, f) ==
    IF "load" \in f \/ "task" \in f \/ "status" \in f THEN "error"
    ELSE IF b.task = "running" THEN "Running"
    ELSE IF b.task = "none" THEN "NotCreated"
    ELSE "Stopped"

\* Container.Status
containerStatus(b, f) ==
    LET l == loadContainer(b, "load" \in f)
        t == ctrTask(b, "task" \in f)
    IN IF l = "notfound" THEN "NotCreated"
       ELSE IF l = "error" THEN "error"
       ELSE IF t = "notfound" THEN "Stopped"
       ELSE IF t = "error" THEN "error"
       ELSE IF "status" \in f THEN "error"
       ELSE IF b.task = "running" THEN "Running"
       ELSE "Stopped"

containerStopStrict(b, f) ==
    LET l == loadContainer(b, "load" \in f)
        t == ctrTask(b, "task" \in f)
        d == taskDelete(taskKill(b, "kill" \in f), "tdelete" \in f)
    IN IF l # "ok" \/ t # "ok" THEN [box |-> b, result |-> "error"]
       ELSE [box |-> d.box, result |-> IF d.err THEN "error" ELSE "nil"]

\* Container.Stop
containerStop(b, f) ==
    LET l == loadContainer(b, "load" \in f)
        t == ctrTask(b, "task" \in f)
        d == taskDelete(taskKill(b, "kill" \in f), "tdelete" \in f)
    IN IF l = "notfound" THEN [box |-> b, result |-> "nil"]
       ELSE IF l = "error" THEN [box |-> b, result |-> "error"]
       ELSE IF t = "notfound" THEN [box |-> b, result |-> "nil"]
       ELSE IF t = "error" THEN [box |-> b, result |-> "error"]
       ELSE [box |-> d.box, result |-> IF d.err THEN "error" ELSE "nil"]

\* Container.Destroy: it returns nothing; warned tells whether it logged a
\* warning.
containerDestroy(b, f) ==
    LET l == loadContainer(b, "load" \in f)
        t == IF ctrTask(b, "task" \in f) = "ok"
             THEN taskDelete(taskKill(b, "kill" \in f), "tdelete" \in f).box
             ELSE b
        d == ctrDelete(t, "delete" \in f)
    IN IF l = "notfound" THEN [box |-> b, warned |-> FALSE]
       ELSE IF l = "error" THEN [box |-> b, warned |-> TRUE]
       ELSE [box |-> d.box, warned |-> d.err]

removeNothing(b, f) == b

\* Container.remove: as Destroy, without the warnings.
remove(b, f) ==
    LET l == loadContainer(b, "rload" \in f)
        t == IF ctrTask(b, "rtask" \in f) = "ok"
             THEN taskDelete(taskKill(b, "rkill" \in f), "rtdelete" \in f).box
             ELSE b
    IN IF l # "ok" THEN b ELSE ctrDelete(t, "rdelete" \in f).box

\* Container.create: the engine refuses an id that is taken.
create(b, f) ==
    IF "create" \in f \/ b.exists THEN [box |-> b, err |-> TRUE]
    ELSE [box |-> [exists |-> TRUE, task |-> "none"], err |-> FALSE]

\* Container.startTask
startTask(b, f) ==
    LET made == [b EXCEPT !.task = "created"]
    IN IF "newtask" \in f THEN [box |-> b, err |-> TRUE]
       ELSE IF "start" \in f
            THEN [box |-> taskDelete(made, "tdelete" \in f).box, err |-> TRUE]
       ELSE [box |-> [b EXCEPT !.task = "running"], err |-> FALSE]

\* Runtime.StartContainer: the engine after the call, the result, and the
\* step the call failed at.
StartContainer(b, f) ==
    LET r == remove(b, f)
        c == create(r, f)
        t == startTask(c.box, f)
    IN IF "import" \in f THEN [box |-> b, result |-> "error", at |-> "import"]
       ELSE IF "resolve" \in f
            THEN [box |-> r, result |-> "error", at |-> "resolve"]
       ELSE IF c.err THEN [box |-> c.box, result |-> "error", at |-> "create"]
       ELSE IF t.err
            THEN [box |-> ctrDelete(t.box, "delete" \in f).box,
                  result |-> "error", at |-> "task"]
       ELSE [box |-> t.box, result |-> "nil", at |-> "none"]

LifeInit ==
    /\ MainIdle /\ StateIdle /\ StepsIdle /\ ParseIdle /\ ServerIdle /\ ExecIdle /\ EnvIdle /\ TagIdle /\ LeaseIdle /\ PipeIdle /\ IdIdle /\ AwaitIdle /\ StopIdle /\ TargetIdle
    /\ state = NoState
    /\ LifeIdle

\* A lifecycle call as the history keeps it.
Call(op, after, result, f) ==
    [op |-> op, before |-> box, after |-> after, result |-> result,
     faulted |-> f # {}, at |-> "none", cleaned |-> f \cap CleanupCalls = {}]

\* The requests that fail in one StartContainer call: any MaxFaults of them.
StartFaults == { f \in SUBSET StartCalls : Cardinality(f) <= MaxFaults }

LifeStart ==
    \E f \in StartFaults :
        LET r == StartContainer(box, f)
        IN /\ box' = r.box
           /\ prevOp' = lastOp
           /\ lastOp' = [Call("StartContainer", r.box, r.result, f)
                             EXCEPT !.at = r.at]
           /\ UNCHANGED << main, state, stateUnit, stepsUnit, parseUnit, serverUnit, execUnit, envUnit, tagUnit, leaseUnit, pipeUnit, idUnit, awaitUnit, stopUnit, targetUnit >>

LifeStatus ==
    \E f \in SUBSET StatusCalls :
        /\ prevOp' = lastOp
        /\ lastOp' = Call("Status", box, containerStatus(box, f), f)
        /\ UNCHANGED << main, state, stateUnit, stepsUnit, parseUnit, box, serverUnit, execUnit, envUnit, tagUnit, leaseUnit, pipeUnit, idUnit, awaitUnit, stopUnit, targetUnit >>

LifeStop ==
    \E f \in SUBSET StopCalls :
        LET r == containerStop(box, f)
        IN /\ box' = r.box
           /\ prevOp' = lastOp
           /\ lastOp' = Call("Stop", r.box, r.result, f)
           /\ UNCHANGED << main, state, stateUnit, stepsUnit, parseUnit, serverUnit, execUnit, envUnit, tagUnit, leaseUnit, pipeUnit, idUnit, awaitUnit, stopUnit, targetUnit >>

LifeDestroy ==
    \E f \in SUBSET DestroyCalls :
        LET r == containerDestroy(box, f)
        IN /\ box' = r.box
           /\ prevOp' = lastOp
           /\ lastOp' = Call("Destroy", r.box,
                             IF r.warned THEN "warned" ELSE "nil", f)
           /\ UNCHANGED << main, state, stateUnit, stepsUnit, parseUnit, serverUnit, execUnit, envUnit, tagUnit, leaseUnit, pipeUnit, idUnit, awaitUnit, stopUnit, targetUnit >>

LifeNext == LifeStart \/ LifeStatus \/ LifeStop \/ LifeDestroy

LifeSpec == LifeInit /\ [][LifeNext]_vars

\* ------------------------------------------------------------ the server
\* What a client sends on a connection: nothing up to a newline before it
\* closes, a line that is no envelope, an envelope with an unknown command, a
\* build with an undecodable payload, a build, a status, a shutdown, or a
\* command for the runtime.
RequestSet == { "eof", "garbage", "unknown", "badbuild", "build", "status",
                "shutdown", "container-destroy" }

Conns == 1..MaxConns

lockAlways(holder) == TRUE

\* sync.Mutex.Lock returns once the mutex is free.
lock(holder) == holder = 0

respondTwice(out, cmd, encodes) ==
    out \o << [cmd |-> cmd, written |-> encodes],
              [cmd |-> cmd, written |-> encodes] >>

\* Server.respond: one envelope and a newline are written to the connection,
\* unless the envelope cannot be encoded, which is only logged.
respond(out, cmd, encodes) ==
    Append(out, [cmd |-> cmd, written |-> encodes])

ServerInit ==
    /\ MainIdle /\ StateIdle /\ StepsIdle /\ ParseIdle /\ LifeIdle /\ ExecIdle /\ EnvIdle /\ TagIdle /\ LeaseIdle /\ PipeIdle /\ IdIdle /\ AwaitIdle /\ TargetIdle
    /\ state = NoState
    /\ conns = [c \in Conns |-> NoConn]
    /\ builds = 0
    /\ mu = 0
    /\ done = FALSE
    /\ stopping = 0
    /\ crashed = FALSE
    /\ listener = "open"
    /\ aloop = "running"
    /\ closing = 0
    /\ signalled = FALSE

\* listener.Accept returns a connection only while the listener is open.
accepts(l) == l = "open"

\* Server.accept: a connection is accepted and its handler started.
Accept ==
    /\ ~crashed
    /\ aloop = "running"
    /\ accepts(listener)
    /\ \E c \in Conns, req \in RequestSet :
        /\ conns[c].pc = "free"
        /\ \A d \in Conns : d < c => conns[d].pc # "free"
        /\ conns' = [conns EXCEPT ![c] = [@ EXCEPT !.pc = "read", !.req = req]]
    /\ UNCHANGED << main, state, stateUnit, stepsUnit, parseUnit, lifeUnit, builds, mu, done, stopping, crashed, execUnit, envUnit, tagUnit, leaseUnit, pipeUnit, idUnit, awaitUnit, stopUnit, targetUnit >>

\* Server.handle up to the call of the command's handler, and the handlers
\* that touch nothing shared: handleShutdown responds and starts Stop.
Handle ==
    /\ ~crashed
    /\ \E c \in Conns, encodes \in BOOLEAN :
        LET k == conns[c]
            closed(cmd) == [k EXCEPT !.pc = "closed", !.taken = 1,
                                     !.out = respond(k.out, cmd, encodes)]
        IN /\ k.pc = "read"
           /\ conns' = [conns EXCEPT ![c] =
                 CASE k.req = "eof" -> [k EXCEPT !.pc = "closed"]
                   [] k.req \in { "garbage", "unknown", "badbuild" }
                        -> closed("error")
                   [] k.req = "build" -> [k EXCEPT !.pc = "run", !.taken = 1]
                   [] k.req = "status" -> [k EXCEPT !.pc = "slock", !.taken = 1]
                   [] k.req = "shutdown" -> closed("ok")
                   [] k.req = "container-destroy" -> closed("ok")]
           /\ stopping' = IF k.req = "shutdown" THEN stopping + 1 ELSE stopping
    /\ UNCHANGED << main, state, stateUnit, stepsUnit, parseUnit, lifeUnit, builds, mu, done, crashed, execUnit, envUnit, tagUnit, leaseUnit, pipeUnit, idUnit, awaitUnit, stopUnit, targetUnit >>

\* Server.accept: Accept fails on the closed listener; the loop returns when
\* done is closed and goes on otherwise.
AcceptExit ==
    /\ ~crashed
    /\ aloop = "running"
    /\ ~accepts(listener)
    /\ done
    /\ aloop' = "exited"
    /\ UNCHANGED << main, state, stateUnit, stepsUnit, parseUnit, lifeUnit, serverUnit, execUnit, envUnit, tagUnit, leaseUnit, pipeUnit, idUnit, awaitUnit, listener, closing, signalled, targetUnit >>

\* StartCmd.Run: the context is cancelled by a signal and Run calls Stop.
Signal ==
    /\ ~crashed
    /\ ~signalled
    /\ signalled' = TRUE
    /\ stopping' = stopping + 1
    /\ UNCHANGED << main, state, stateUnit, stepsUnit, parseUnit, lifeUnit, conns, builds, mu, done, crashed, execUnit, envUnit, tagUnit, leaseUnit, pipeUnit, idUnit, awaitUnit, listener, aloop, closing, targetUnit >>

\* Server.Stop, called by Run or in the goroutine handleShutdown started:
\* close(s.done); closing a closed channel panics.
ServerStop ==
    /\ ~crashed
    /\ stopping > 0
    /\ stopping' = stopping - 1
    /\ done' = TRUE
    /\ crashed' = done
    /\ closing' = IF done THEN closing ELSE closing + 1
    /\ UNCHANGED << main, state, stateUnit, stepsUnit, parseUnit, lifeUnit, conns, builds, mu, execUnit, envUnit, tagUnit, leaseUnit, pipeUnit, idUnit, awaitUnit, listener, aloop, signalled, targetUnit >>

\* listener.Close()
closeListener(l) == "closed"

\* Server.Stop after close(s.done): the listener and the runtime are closed,
\* the socket and the PID file removed.
ServerStopClose ==
    /\ ~crashed
    /\ closing > 0
    /\ closing' = closing - 1
    /\ listener' = closeListener(listener)
    /\ UNCHANGED << main, state, stateUnit, stepsUnit, parseUnit, lifeUnit, serverUnit, execUnit, envUnit, tagUnit, leaseUnit, pipeUnit, idUnit, awaitUnit, aloop, signalled, targetUnit >>

\* handleBuild: build.Run returns.
BuildRun ==
    /\ ~crashed
    /\ \E c \in Conns, ok \in BOOLEAN, encodes \in BOOLEAN :
        LET k == conns[c]
        IN /\ k.pc = "run"
           /\ conns' = [conns EXCEPT ![c] =
                 IF ok THEN [k EXCEPT !.pc = "lock", !.ran = "ok"]
                 ELSE [k EXCEPT !.pc = "closed", !.ran = "error",
                                !.out = respond(k.out, "error", encodes)]]
    /\ UNCHANGED << main, state, stateUnit, stepsUnit, parseUnit, lifeUnit, builds, mu, done, stopping, crashed, execUnit, envUnit, tagUnit, leaseUnit, pipeUnit, idUnit, awaitUnit, stopUnit, targetUnit >>

\* handleBuild: s.mu.Lock()
BuildLock ==
    /\ ~crashed
    /\ \E c \in Conns :
        /\ conns[c].pc = "lock"
        /\ lock(mu)
        /\ mu' = c
        /\ conns' = [conns EXCEPT ![c].pc = "load"]
    /\ UNCHANGED << main, state, stateUnit, stepsUnit, parseUnit, lifeUnit, builds, done, stopping, crashed, execUnit, envUnit, tagUnit, leaseUnit, pipeUnit, idUnit, awaitUnit, stopUnit, targetUnit >>

\* handleBuild: s.builds++ reads the counter
BuildLoad ==
    /\ ~crashed
    /\ \E c \in Conns :
        /\ conns[c].pc = "load"
        /\ conns' = [conns EXCEPT ![c].pc = "store", ![c].tmp = builds]
    /\ UNCHANGED << main, state, stateUnit, stepsUnit, parseUnit, lifeUnit, builds, mu, done, stopping, crashed, execUnit, envUnit, tagUnit, leaseUnit, pipeUnit, idUnit, awaitUnit, stopUnit, targetUnit >>

\* handleBuild: s.builds++ writes it back
BuildStore ==
    /\ ~crashed
    /\ \E c \in Conns :
        /\ conns[c].pc = "store"
        /\ builds' = conns[c].tmp + 1
        /\ conns' = [conns EXCEPT ![c].pc = "unlock", ![c].counted = TRUE]
    /\ UNCHANGED << main, state, stateUnit, stepsUnit, parseUnit, lifeUnit, mu, done, stopping, crashed, execUnit, envUnit, tagUnit, leaseUnit, pipeUnit, idUnit, awaitUnit, stopUnit, targetUnit >>

\* handleBuild: s.mu.Unlock(), the ok response, and the connection closes.
BuildUnlock ==
    /\ ~crashed
    /\ \E c \in Conns, encodes \in BOOLEAN :
        /\ conns[c].pc = "unlock"
        /\ mu' = 0
        /\ conns' = [conns EXCEPT ![c].pc = "closed",
                        ![c].out = respond(conns[c].out, "ok", encodes)]
    /\ UNCHANGED << main, state, stateUnit, stepsUnit, parseUnit, lifeUnit, builds, done, stopping, crashed, execUnit, envUnit, tagUnit, leaseUnit, pipeUnit, idUnit, awaitUnit, stopUnit, targetUnit >>

\* handleStatus: s.mu.Lock()
StatusLock ==
    /\ ~crashed
    /\ \E c \in Conns :
        /\ conns[c].pc = "slock"
        /\ lock(mu)
        /\ mu' = c
        /\ conns' = [conns EXCEPT ![c].pc = "sread"]
    /\ UNCHANGED << main, state, stateUnit, stepsUnit, parseUnit, lifeUnit, builds, done, stopping, crashed, execUnit, envUnit, tagUnit, leaseUnit, pipeUnit, idUnit, awaitUnit, stopUnit, targetUnit >>

\* handleStatus: builds := s.builds
StatusRead ==
    /\ ~crashed
    /\ \E c \in Conns :
        /\ conns[c].pc = "sread"
        /\ conns' = [conns EXCEPT ![c].pc = "sunlock",
                        ![c].reported = builds,
                        ![c].atRead =
                            Cardinality({ d \in Conns : conns[d].counted })]
    /\ UNCHANGED << main, state, stateUnit, stepsUnit, parseUnit, lifeUnit, builds, mu, done, stopping, crashed, execUnit, envUnit, tagUnit, leaseUnit, pipeUnit, idUnit, awaitUnit, stopUnit, targetUnit >>

\* handleStatus: s.mu.Unlock(), the response, and the connection closes.
StatusUnlock ==
    /\ ~crashed
    /\ \E c \in Conns, encodes \in BOOLEAN :
        /\ conns[c].pc = "sunlock"
        /\ mu' = 0
        /\ conns' = [conns EXCEPT ![c].pc = "closed",
                        ![c].out = respond(conns[c].out, "ok", encodes)]
    /\ UNCHANGED << main, state, stateUnit, stepsUnit, parseUnit, lifeUnit, builds, done, stopping, crashed, execUnit, envUnit, tagUnit, leaseUnit, pipeUnit, idUnit, awaitUnit, stopUnit, targetUnit >>

ServerNext ==
    \/ Accept \/ AcceptExit \/ Handle \/ Signal \/ ServerStop \/ ServerStopClose
    \/ BuildRun \/ BuildLock \/ BuildLoad \/ BuildStore \/ BuildUnlock
    \/ StatusLock \/ StatusRead \/ StatusUnlock

ServerSpec == ServerInit /\ [][ServerNext]_vars

\* The goroutines that stop the server and the accept loop are scheduled.
ServerFairSpec ==
    /\ ServerSpec
    /\ WF_vars(ServerStop) /\ WF_vars(ServerStopClose) /\ WF_vars(AcceptExit)

\* ------------------------------------------------------------ exec ids
\* The goroutines that start exec processes: the producer and the consumer
\* of a cross-stage copy, handlers of daemon requests.
Goroutines == 1..MaxGoroutines

AddUint64Lost(v, delta) == v

\* atomic.AddUint64: the new value. The calls made stay far below 2^64.
AddUint64(v, delta) == v + delta

\* fmt.Sprintf("exec-%d", n)
execID(n) == << "exec", "-", ToString(n) >>

ExecInit ==
    /\ MainIdle /\ StateIdle /\ StepsIdle /\ ParseIdle /\ LifeIdle /\ ServerIdle /\ EnvIdle /\ TagIdle /\ LeaseIdle /\ PipeIdle /\ IdIdle /\ AwaitIdle /\ StopIdle /\ TargetIdle
    /\ state = NoState
    /\ execSeq = 0
    /\ execCalls = [g \in Goroutines |-> NoExecCall]
    /\ execAdds = << >>
    /\ execIds = << >>

\* nextExecID: the atomic addition, one indivisible step.
ExecAdd ==
    /\ Len(execAdds) < MaxExecs
    /\ \E g \in Goroutines :
        /\ execCalls[g].pc = "idle"
        /\ execSeq' = AddUint64(execSeq, 1)
        /\ execCalls' = [execCalls EXCEPT ![g] = [pc |-> "added", n |-> execSeq']]
        /\ execAdds' = Append(execAdds, execSeq')
    /\ UNCHANGED << main, state, stateUnit, stepsUnit, parseUnit, lifeUnit, serverUnit, execIds, envUnit, tagUnit, leaseUnit, pipeUnit, idUnit, awaitUnit, stopUnit, targetUnit >>

\* nextExecID: the identifier is formatted and returned.
ExecReturn ==
    /\ \E g \in Goroutines :
        /\ execCalls[g].pc = "added"
        /\ execIds' = Append(execIds, execID(execCalls[g].n))
        /\ execCalls' = [execCalls EXCEPT ![g] = NoExecCall]
    /\ UNCHANGED << main, state, stateUnit, stepsUnit, parseUnit, lifeUnit, serverUnit, execSeq, execAdds, envUnit, tagUnit, leaseUnit, pipeUnit, idUnit, awaitUnit, stopUnit, targetUnit >>

ExecNext == ExecAdd \/ ExecReturn

ExecSpec == ExecInit /\ [][ExecNext]_vars

\* ------------------------------------------------------------ mergeEnv
\* Entries of an environment list, as characters: well-formed ones, one with
\* "=" in the value, one with an empty value, one with an empty key, and two
\* without "=".
EntrySet == { << "A", "=", "1" >>, << "A", "=", "2" >>, << "B", "=", "1" >>,
              << "A", "=", "1", "=", "2" >>, << "A", "=" >>, << "=", "1" >>,
              << "A" >>, << >> }
EntryLists == UNION { [1..n -> EntrySet] : n \in 0..MaxEntries }

\* strings.Cut(s, sep): the text before and after the first sep.
Cut(s, sep) ==
    LET i == IndexByte(s, sep)
    IN IF i < 0 THEN [before |-> s, after |-> << >>, found |-> FALSE]
       ELSE [before |-> SubSeq(s, 1, i), after |-> SubSeq(s, i + 2, Len(s)),
             found |-> TRUE]

\* One loop of mergeEnv: merged[k] = v for every entry of the list that has
\* a "=", in order.
RECURSIVE mergeInto(_, _)
mergeInto(merged, list) ==
    IF list = << >> THEN merged
    ELSE LET c == Cut(Head(list), "=")
         IN mergeInto(IF c.found
                      THEN [k \in DOMAIN merged \cup { c.before } |->
                               IF k = c.before THEN c.after ELSE merged[k]]
                      ELSE merged,
                      Tail(list))

mergeEnvBaseWins(base, overrides) ==
    LET merged == mergeInto(mergeInto(<< >>, overrides), base)
    IN { k \o << "=" >> \o merged[k] : k \in DOMAIN merged }

\* mergeEnv: the entries of the result; the map is ranged over in no
\* particular order.
mergeEnv(base, overrides) ==
    LET merged == mergeInto(mergeInto(<< >>, base), overrides)
    IN { k \o << "=" >> \o merged[k] : k \in DOMAIN merged }

\* The lists that hold each entry of a set once.
Orders(entries) ==
    { l \in [1..Cardinality(entries) -> entries] :
        \A i, j \in DOMAIN l : i # j => l[i] # l[j] }

EnvInit ==
    /\ MainIdle /\ StateIdle /\ StepsIdle /\ ParseIdle /\ LifeIdle /\ ServerIdle /\ ExecIdle /\ TagIdle /\ LeaseIdle /\ PipeIdle /\ IdIdle /\ AwaitIdle /\ StopIdle /\ TargetIdle
    /\ state = NoState
    /\ envIn \in [base : EntryLists, overrides : EntryLists]
    /\ envOut = NoMerge

\* mergeEnv is called with the lists.
MergeEnv ==
    /\ ~envOut.made
    /\ \E l \in Orders(mergeEnv(envIn.base, envIn.overrides)) :
          envOut' = [made |-> TRUE, list |-> l]
    /\ UNCHANGED << main, state, stateUnit, stepsUnit, parseUnit, lifeUnit, serverUnit, execUnit, envIn, tagUnit, leaseUnit, pipeUnit, idUnit, awaitUnit, stopUnit, targetUnit >>

EnvNext == MergeEnv

EnvSpec == EnvInit /\ [][EnvNext]_vars

\* ------------------------------------------------------------ imageTag
\* Archive paths, as characters.
PathChars == { "a", "b", "/" }
ArchivePaths == UNION { [1..n -> PathChars] : n \in 0..MaxPath }

TagInit ==
    /\ MainIdle /\ StateIdle /\ StepsIdle /\ ParseIdle /\ LifeIdle /\ ServerIdle /\ ExecIdle /\ EnvIdle /\ LeaseIdle /\ PipeIdle /\ IdIdle /\ AwaitIdle /\ StopIdle /\ TargetIdle
    /\ state = NoState
    /\ tagIn \in [1..2 -> ArchivePaths]
    /\ tagOut = << >>

\* imageTag is called with one of the paths.
ImageTag ==
    /\ Len(tagOut) < MaxTagCalls
    /\ \E i \in 1..2 :
          tagOut' = Append(tagOut, [path |-> tagIn[i], tag |-> imageTag(tagIn[i])])
    /\ UNCHANGED << main, state, stateUnit, stepsUnit, parseUnit, lifeUnit, serverUnit, execUnit, envUnit, tagIn, leaseUnit, pipeUnit, idUnit, awaitUnit, stopUnit, targetUnit >>

TagNext == ImageTag

TagSpec == TagInit /\ [][TagNext]_vars

\* ------------------------------------------------------ Export's lease
\* The Export that exports an ephemeral target under a content lease. Each
\* engine request may fail; it fails when its context is cancelled.

acquireNothing(l) == l

\* client.WithLease: the context carries a new lease from here on.
acquire(l) == "held"

\* done(context.Background()): the lease is deleted, whatever became of the
\* context of the export.
release(l) == IF l = "held" THEN "released" ELSE l

\* What the engine's collector must keep: blobs written under a lease that
\* is still held, and what their gc.ref.content labels point to.
Protected(b) ==
    /\ lease = "held"
    /\ \/ b \in held
       \/ b \in { "layer", "config" } /\ "manifest" \in held \cap blobs
       \/ b = "manifest" /\ "index" \in held \cap blobs

Did(ev) == Append(xlog, [ev |-> ev, lease |-> lease])

LeaseInit ==
    /\ MainIdle /\ StateIdle /\ StepsIdle /\ ParseIdle /\ LifeIdle /\ ServerIdle /\ ExecIdle /\ EnvIdle /\ TagIdle /\ PipeIdle /\ IdIdle /\ AwaitIdle /\ StopIdle /\ TargetIdle
    /\ state = NoState
    /\ xpc = "load"
    /\ lease = "none"
    /\ blobs = {}
    /\ held = {}
    /\ xlog = << >>
    /\ xerr = "none"
    /\ xcancelled = FALSE
    /\ xindex \in BOOLEAN

\* The context of the export is cancelled.
XCancel ==
    /\ xpc \notin { "idle", "done" }
    /\ ~xcancelled
    /\ xcancelled' = TRUE
    /\ UNCHANGED << main, state, stateUnit, stepsUnit, parseUnit, lifeUnit, serverUnit, execUnit, envUnit, tagUnit, xpc, lease, blobs, held, xlog, xerr, xindex, pipeUnit, idUnit, awaitUnit, stopUnit, targetUnit >>

\* The engine's collector runs: what nothing protects is deleted.
XCollect ==
    /\ xpc # "idle"
    /\ \E b \in blobs : ~Protected(b)
    /\ blobs' = { b \in blobs : Protected(b) }
    /\ UNCHANGED << main, state, stateUnit, stepsUnit, parseUnit, lifeUnit, serverUnit, execUnit, envUnit, tagUnit, xpc, lease, held, xlog, xerr, xcancelled, xindex, pipeUnit, idUnit, awaitUnit, stopUnit, targetUnit >>

\* client.LoadContainer
XLoad ==
    /\ xpc = "load"
    /\ \E ok \in BOOLEAN :
        /\ ok => ~xcancelled
        /\ IF ok THEN xpc' = "info" /\ xerr' = xerr
           ELSE xpc' = "done" /\ xerr' = "ErrRuntime"
    /\ UNCHANGED << main, state, stateUnit, stepsUnit, parseUnit, lifeUnit, serverUnit, execUnit, envUnit, tagUnit, lease, blobs, held, xlog, xcancelled, xindex, pipeUnit, idUnit, awaitUnit, stopUnit, targetUnit >>

\* loaded.Info
XInfo ==
    /\ xpc = "info"
    /\ \E ok \in BOOLEAN :
        /\ ok => ~xcancelled
        /\ IF ok THEN xpc' = "diff" /\ xerr' = xerr
           ELSE xpc' = "done" /\ xerr' = "ErrRuntime"
    /\ UNCHANGED << main, state, stateUnit, stepsUnit, parseUnit, lifeUnit, serverUnit, execUnit, envUnit, tagUnit, lease, blobs, held, xlog, xcancelled, xindex, pipeUnit, idUnit, awaitUnit, stopUnit, targetUnit >>

\* snapshotDiff: CreateDiff stores the layer, GetDiffID reads it back.
XDiff ==
    /\ xpc = "diff"
    /\ \E ok \in BOOLEAN :
        /\ ok => ~xcancelled
        /\ IF ok
           THEN /\ xpc' = "lease" /\ xerr' = xerr
                /\ blobs' = blobs \cup { "layer" }
                /\ xlog' = Did("write-layer")
           ELSE /\ xpc' = "done" /\ xerr' = "ErrRuntime"
                /\ UNCHANGED << blobs, xlog >>
    /\ UNCHANGED << main, state, stateUnit, stepsUnit, parseUnit, lifeUnit, serverUnit, execUnit, envUnit, tagUnit, lease, held, xcancelled, xindex, pipeUnit, idUnit, awaitUnit, stopUnit, targetUnit >>

\* client.WithLease, and the deferred release registered on success.
XLease ==
    /\ xpc = "lease"
    /\ \E ok \in BOOLEAN :
        /\ ok => ~xcancelled
        /\ IF ok
           THEN /\ xpc' = "get" /\ xerr' = xerr
                /\ lease' = acquire(lease)
                /\ xlog' = Did("acquire")
           ELSE /\ xpc' = "done" /\ xerr' = "ErrRuntime"
                /\ UNCHANGED << lease, xlog >>
    /\ UNCHANGED << main, state, stateUnit, stepsUnit, parseUnit, lifeUnit, serverUnit, execUnit, envUnit, tagUnit, blobs, held, xcancelled, xindex, pipeUnit, idUnit, awaitUnit, stopUnit, targetUnit >>

\* buildExportTarget: the image record, and through the index if the root
\* is one, the manifest and the config are read.
XGet ==
    /\ xpc = "get"
    /\ \E ok \in BOOLEAN :
        /\ ok => ~xcancelled
        /\ IF ok
           THEN /\ xpc' = "config" /\ xerr' = xerr /\ lease' = lease
                /\ xlog' = xlog
           ELSE /\ xpc' = "done" /\ xerr' = "ErrRuntime"
                /\ lease' = release(lease)
                /\ xlog' = Did("release")
    /\ UNCHANGED << main, state, stateUnit, stepsUnit, parseUnit, lifeUnit, serverUnit, execUnit, envUnit, tagUnit, blobs, held, xcancelled, xindex, pipeUnit, idUnit, awaitUnit, stopUnit, targetUnit >>

\* mutateManifest: the mutated config is written.
XConfig ==
    /\ xpc = "config"
    /\ \E ok \in BOOLEAN :
        /\ ok => ~xcancelled
        /\ IF ok
           THEN /\ xpc' = "manifest" /\ xerr' = xerr /\ lease' = lease
                /\ blobs' = blobs \cup { "config" }
                /\ held' = IF lease = "held" THEN held \cup { "config" } ELSE held
                /\ xlog' = Did("write-config")
           ELSE /\ xpc' = "done" /\ xerr' = "ErrRuntime"
                /\ lease' = release(lease)
                /\ xlog' = Did("release")
                /\ UNCHANGED << blobs, held >>
    /\ UNCHANGED << main, state, stateUnit, stepsUnit, parseUnit, lifeUnit, serverUnit, execUnit, envUnit, tagUnit, xcancelled, xindex, pipeUnit, idUnit, awaitUnit, stopUnit, targetUnit >>

\* mutateManifest: the mutated manifest is written with its labels.
XManifest ==
    /\ xpc = "manifest"
    /\ \E ok \in BOOLEAN :
        /\ ok => ~xcancelled
        /\ IF ok
           THEN /\ xpc' = (IF xindex THEN "index" ELSE "archive")
                /\ xerr' = xerr /\ lease' = lease
                /\ blobs' = blobs \cup { "manifest" }
                /\ held' = IF lease = "held" THEN held \cup { "manifest" } ELSE held
                /\ xlog' = Did("write-manifest")
           ELSE /\ xpc' = "done" /\ xerr' = "ErrRuntime"
                /\ lease' = release(lease)
                /\ xlog' = Did("release")
                /\ UNCHANGED << blobs, held >>
    /\ UNCHANGED << main, state, stateUnit, stepsUnit, parseUnit, lifeUnit, serverUnit, execUnit, envUnit, tagUnit, xcancelled, xindex, pipeUnit, idUnit, awaitUnit, stopUnit, targetUnit >>

\* buildImageTarget: the single-entry index is written with its labels.
XIndex ==
    /\ xpc = "index"
    /\ \E ok \in BOOLEAN :
        /\ ok => ~xcancelled
        /\ IF ok
           THEN /\ xpc' = "archive" /\ xerr' = xerr /\ lease' = lease
                /\ blobs' = blobs \cup { "index" }
                /\ held' = IF lease = "held" THEN held \cup { "index" } ELSE held
                /\ xlog' = Did("write-index")
           ELSE /\ xpc' = "done" /\ xerr' = "ErrRuntime"
                /\ lease' = release(lease)
                /\ xlog' = Did("release")
                /\ UNCHANGED << blobs, held >>
    /\ UNCHANGED << main, state, stateUnit, stepsUnit, parseUnit, lifeUnit, serverUnit, execUnit, envUnit, tagUnit, xcancelled, xindex, pipeUnit, idUnit, awaitUnit, stopUnit, targetUnit >>

\* exportImage and the return: the archive needs every blob of the target.
XArchive ==
    /\ xpc = "archive"
    /\ \E ok \in BOOLEAN :
        /\ ok => /\ ~xcancelled
                 /\ { "layer", "config", "manifest" } \subseteq blobs
                 /\ xindex => "index" \in blobs
        /\ xpc' = "done"
        /\ lease' = release(lease)
        /\ IF ok
           THEN /\ xerr' = "nil"
                /\ xlog' = Append(Did("archive"),
                                  [ev |-> "release", lease |-> lease])
           ELSE /\ xerr' = "ErrRuntime"
                /\ xlog' = Did("release")
    /\ UNCHANGED << main, state, stateUnit, stepsUnit, parseUnit, lifeUnit, serverUnit, execUnit, envUnit, tagUnit, blobs, held, xcancelled, xindex, pipeUnit, idUnit, awaitUnit, stopUnit, targetUnit >>

LeaseNext ==
    \/ XCancel \/ XCollect \/ XLoad \/ XInfo \/ XDiff \/ XLease
    \/ XGet \/ XConfig \/ XManifest \/ XIndex \/ XArchive

LeaseSpec == LeaseInit /\ [][LeaseNext]_vars

\* ============================================================ tar streams
\* executeHostCopy and executeStageCopy: a producer writes a tar stream into
\* an io.Pipe, the consumer is `tar xf -` exec'ed in the destination
\* container with the pipe's read end as its stdin. The stream is ctotal data
\* blocks followed by the end-of-archive marker. A write into the pipe
\* completes only when the other side reads it.
CopyDirs == { "host", "stage" }
ExitCodes == { 0, 1 }

\* pw.CloseWithError(err): a nil error closes the pipe with io.EOF.
CloseWithError(e) == IF e = "nil" THEN "eof" ELSE "error"

\* pw.Close(): the reader gets io.EOF.
Close == "eof"

\* The write end after the producer of the direction has closed it:
\* executeHostCopy attaches writeErr, executeStageCopy closes plainly.
closeWrite(dir, e) == IF dir = "host" THEN CloseWithError(e) ELSE Close

\* doneReader.Read on the drained pipe whose write end is w: the error it
\* returns, and whether the done channel is closed (on io.EOF only).
doneReaderRead(w) ==
    [ err  |-> IF w = "eof" THEN "EOF" ELSE "error",
      done |-> w = "eof" ]

mustExecIgnoresExit(code) == "nil"

\* mustExec: a non-zero exit code of the command is an error.
mustExec(code) == IF code # 0 THEN "ErrRuntime" ELSE "nil"

PipeInit ==
    /\ MainIdle /\ StateIdle /\ StepsIdle /\ ParseIdle /\ LifeIdle /\ ServerIdle /\ ExecIdle /\ EnvIdle /\ TagIdle /\ LeaseIdle /\ IdIdle /\ AwaitIdle /\ StopIdle /\ TargetIdle
    /\ state = NoState
    /\ cdir \in CopyDirs
    /\ ctotal \in 0..MaxBlocks
    /\ cwritten = 0
    /\ pstate = "writing"
    /\ perr = "none"
    /\ wend = "open"
    /\ errc = "empty"
    /\ copier = "reading"
    /\ stdinEOF = FALSE
    /\ footer = FALSE
    /\ cexit = "none"
    /\ cpc = "copyto"
    /\ cret = "none"
    /\ ccancelled = FALSE

\* The context of the copy is cancelled.
PipeCancel ==
    /\ cpc # "idle"
    /\ ~ccancelled
    /\ ccancelled' = TRUE
    /\ UNCHANGED << main, state, stateUnit, stepsUnit, parseUnit, lifeUnit, serverUnit, execUnit, envUnit, tagUnit, leaseUnit, cdir, ctotal, cwritten, pstate, perr, wend, errc, copier, stdinEOF, footer, cexit, cpc, cret, idUnit, awaitUnit, stopUnit, targetUnit >>

\* The producer writes one data block, which the copy into the consumer's
\* stdin reads.
PWrite ==
    /\ pstate = "writing"
    /\ cwritten < ctotal
    /\ copier = "reading"
    /\ cwritten' = cwritten + 1
    /\ UNCHANGED << main, state, stateUnit, stepsUnit, parseUnit, lifeUnit, serverUnit, execUnit, envUnit, tagUnit, leaseUnit, cdir, ctotal, pstate, perr, wend, errc, copier, stdinEOF, footer, cexit, cpc, cret, ccancelled, idUnit, awaitUnit, stopUnit, targetUnit >>

\* The producer fails (writeDirToTar or writeFileToTar returns an error, the
\* source container's tar exits with an error); what it had written so far
\* is followed by the end-of-archive marker, or not.
PFail ==
    /\ pstate = "writing"
    /\ perr' = "error"
    /\ pstate' \in { "footer", "closing" }
    /\ UNCHANGED << main, state, stateUnit, stepsUnit, parseUnit, lifeUnit, serverUnit, execUnit, envUnit, tagUnit, leaseUnit, cdir, ctotal, cwritten, wend, errc, copier, stdinEOF, footer, cexit, cpc, cret, ccancelled, idUnit, awaitUnit, stopUnit, targetUnit >>

\* The producer has written every data block.
PFinish ==
    /\ pstate = "writing"
    /\ cwritten = ctotal
    /\ perr' = "nil"
    /\ pstate' = "footer"
    /\ UNCHANGED << main, state, stateUnit, stepsUnit, parseUnit, lifeUnit, serverUnit, execUnit, envUnit, tagUnit, leaseUnit, cdir, ctotal, cwritten, wend, errc, copier, stdinEOF, footer, cexit, cpc, cret, ccancelled, idUnit, awaitUnit, stopUnit, targetUnit >>

\* The end-of-archive marker goes through the pipe (tw.Close in the host
\* direction, the end of tar's output in the stage direction).
PFooter ==
    /\ pstate = "footer"
    /\ copier = "reading"
    /\ footer' = TRUE
    /\ pstate' = "closing"
    /\ UNCHANGED << main, state, stateUnit, stepsUnit, parseUnit, lifeUnit, serverUnit, execUnit, envUnit, tagUnit, leaseUnit, cdir, ctotal, cwritten, perr, wend, errc, copier, stdinEOF, cexit, cpc, cret, ccancelled, idUnit, awaitUnit, stopUnit, targetUnit >>

\* The wait for the source container's tar returns because the context is
\* cancelled: CopyFrom returns an error.
PCancelled ==
    /\ cdir = "stage"
    /\ ccancelled
    /\ pstate \in { "writing", "footer" }
    /\ perr' = "error"
    /\ pstate' = "closing"
    /\ UNCHANGED << main, state, stateUnit, stepsUnit, parseUnit, lifeUnit, serverUnit, execUnit, envUnit, tagUnit, leaseUnit, cdir, ctotal, cwritten, wend, errc, copier, stdinEOF, footer, cexit, cpc, cret, ccancelled, idUnit, awaitUnit, stopUnit, targetUnit >>

\* The end of the producer goroutine: in the stage direction the result of
\* CopyFrom is sent on errc (buffered, the send never blocks); the write end
\* is closed.
PClose ==
    /\ pstate = "closing"
    /\ errc' = IF cdir = "stage" THEN perr ELSE errc
    /\ wend' = closeWrite(cdir, perr)
    /\ pstate' = "closed"
    /\ UNCHANGED << main, state, stateUnit, stepsUnit, parseUnit, lifeUnit, serverUnit, execUnit, envUnit, tagUnit, leaseUnit, cdir, ctotal, cwritten, perr, copier, stdinEOF, footer, cexit, cpc, cret, ccancelled, idUnit, awaitUnit, stopUnit, targetUnit >>

\* The copy into the consumer's stdin reads the closed pipe: on io.EOF the
\* done channel fires and awaitProcess closes the consumer's stdin; on another
\* error the copy ends and the stdin stays open.
CopierEnd ==
    /\ copier = "reading"
    /\ wend # "open"
    /\ copier' = "stopped"
    /\ stdinEOF' = doneReaderRead(wend).done
    /\ UNCHANGED << main, state, stateUnit, stepsUnit, parseUnit, lifeUnit, serverUnit, execUnit, envUnit, tagUnit, leaseUnit, cdir, ctotal, cwritten, pstate, perr, wend, errc, footer, cexit, cpc, cret, ccancelled, idUnit, awaitUnit, stopUnit, targetUnit >>

\* The consumer is gone: the copy into its stdin ends, nothing reads the pipe
\* any more.
CopierBroken ==
    /\ copier = "reading"
    /\ cexit # "none"
    /\ copier' = "stopped"
    /\ UNCHANGED << main, state, stateUnit, stepsUnit, parseUnit, lifeUnit, serverUnit, execUnit, envUnit, tagUnit, leaseUnit, cdir, ctotal, cwritten, pstate, perr, wend, errc, stdinEOF, footer, cexit, cpc, cret, ccancelled, idUnit, awaitUnit, stopUnit, targetUnit >>

\* The consumer fails before the end of its input (no task to exec in, the
\* destination cannot be written): CopyTo returns the error and the copy
\* returns it.
ConsumerFails ==
    /\ cpc = "copyto"
    /\ cexit = "none"
    /\ cexit' = "1"
    /\ cret' = "consumer"
    /\ cpc' = "returned"
    /\ UNCHANGED << main, state, stateUnit, stepsUnit, parseUnit, lifeUnit, serverUnit, execUnit, envUnit, tagUnit, leaseUnit, cdir, ctotal, cwritten, pstate, perr, wend, errc, copier, stdinEOF, footer, ccancelled, idUnit, awaitUnit, stopUnit, targetUnit >>

\* The consumer has seen the end of the archive (the marker, or the end of
\* its stdin) and exits; awaitProcess returns its exit code, mustExec turns
\* it into CopyTo's result. On an error the copy returns it; otherwise the
\* host copy returns nil and the stage copy goes on to read errc.
ConsumerEnds ==
    /\ cpc = "copyto"
    /\ cexit = "none"
    /\ stdinEOF \/ footer
    /\ \E code \in ExitCodes :
          /\ cexit' = ToString(code)
          /\ IF mustExec(code) # "nil"
               THEN cret' = "consumer" /\ cpc' = "returned"
               ELSE IF cdir = "host"
                      THEN cret' = "nil" /\ cpc' = "returned"
                      ELSE cret' = cret /\ cpc' = "errc"
    /\ UNCHANGED << main, state, stateUnit, stepsUnit, parseUnit, lifeUnit, serverUnit, execUnit, envUnit, tagUnit, leaseUnit, cdir, ctotal, cwritten, pstate, perr, wend, errc, copier, stdinEOF, footer, ccancelled, idUnit, awaitUnit, stopUnit, targetUnit >>

\* The wait for the consumer returns because the context is cancelled: the
\* exit status carries an error, CopyTo returns it.
ConsumerCancelled ==
    /\ cpc = "copyto"
    /\ cexit = "none"
    /\ ccancelled
    /\ cexit' = "unknown"
    /\ cret' = "consumer"
    /\ cpc' = "returned"
    /\ UNCHANGED << main, state, stateUnit, stepsUnit, parseUnit, lifeUnit, serverUnit, execUnit, envUnit, tagUnit, leaseUnit, cdir, ctotal, cwritten, pstate, perr, wend, errc, copier, stdinEOF, footer, ccancelled, idUnit, awaitUnit, stopUnit, targetUnit >>

\* executeStageCopy, after CopyTo returned nil: err := <-errc.
ReceiveErrc ==
    /\ cpc = "errc"
    /\ errc \in { "nil", "error" }
    /\ cret' = IF errc = "nil" THEN "nil" ELSE "producer"
    /\ errc' = "taken"
    /\ cpc' = "returned"
    /\ UNCHANGED << main, state, stateUnit, stepsUnit, parseUnit, lifeUnit, serverUnit, execUnit, envUnit, tagUnit, leaseUnit, cdir, ctotal, cwritten, pstate, perr, wend, copier, stdinEOF, footer, cexit, ccancelled, idUnit, awaitUnit, stopUnit, targetUnit >>

PipeNext ==
    \/ PipeCancel \/ PWrite \/ PFail \/ PFinish \/ PFooter \/ PCancelled
    \/ PClose \/ CopierEnd \/ CopierBroken \/ ConsumerFails \/ ConsumerEnds
    \/ ConsumerCancelled \/ ReceiveErrc

PipeSpec == PipeInit /\ [][PipeNext]_vars

\* The goroutines are scheduled: a step of the producer, of the copy into
\* the stdin, of the consumer or of the copy operation that stays possible is
\* taken. Failures and the cancellation are not owed.
PipeFairSpec ==
    /\ PipeSpec
    /\ WF_vars(PWrite) /\ WF_vars(PFinish) /\ WF_vars(PFooter)
    /\ WF_vars(PCancelled) /\ WF_vars(PClose)
    /\ WF_vars(CopierEnd) /\ WF_vars(CopierBroken)
    /\ WF_vars(ConsumerEnds) /\ WF_vars(ConsumerCancelled)
    /\ WF_vars(ReceiveErrc)

\* ========================================================== container ids
\* The containers of one Run: buildPlatform starts a container for each stage
\* of each platform under the id containerID gives it; StartContainer first
\* removes the container the engine holds under that id.
IdNameSet == NameSet \cup { << "2" >> }
IdRecipes == SeqsUpTo(IdNameSet, MaxIdStages) \ { << >> }
IdPlatforms == PlatformLists \ { << >> }

\* Container.remove: the containers of the engine after the one with this id,
\* if any, was deleted.
removeStale(live, id) == { c \in live : c.id # id }

IdInit ==
    /\ MainIdle /\ StateIdle /\ StepsIdle /\ ParseIdle /\ LifeIdle /\ ServerIdle /\ ExecIdle /\ EnvIdle /\ TagIdle /\ LeaseIdle /\ PipeIdle /\ AwaitIdle /\ StopIdle /\ TargetIdle
    /\ state = NoState
    /\ inames \in IdRecipes
    /\ iplats \in IdPlatforms
    /\ ipi = 1 /\ isi = 0
    /\ ipc = "platform"
    /\ istarted = << >>
    /\ ilive = {}
    /\ imap = << >>
    /\ ikilled = {}

\* buildPlatform: a fresh stage map, then the stages in order.
IdPlatform ==
    /\ ipc = "platform"
    /\ imap' = makeStages
    /\ isi' = 1
    /\ ipc' = "stage"
    /\ UNCHANGED << main, state, stateUnit, stepsUnit, parseUnit, lifeUnit, serverUnit, execUnit, envUnit, tagUnit, leaseUnit, pipeUnit, inames, iplats, ipi, istarted, ilive, ikilled, awaitUnit, stopUnit, targetUnit >>

\* StartContainer fails: before the stale container is removed (import, tag,
\* unpack), or after it (resolve, create, task start; a created container is
\* deleted again). buildStage returns the error and the run ends.
IdStartFails ==
    /\ ipc = "stage"
    /\ LET id == containerID(inames[isi], isi - 1, iplats[ipi])
       IN \E removed \in BOOLEAN :
            /\ ilive' = IF removed THEN removeStale(ilive, id) ELSE ilive
            /\ ikilled' = IF removed
                          THEN ikilled \cup { [start |-> c.start, pi |-> ipi, si |-> isi] :
                                               c \in ilive \ removeStale(ilive, id) }
                          ELSE ikilled
    /\ ipc' = "done"
    /\ UNCHANGED << main, state, stateUnit, stepsUnit, parseUnit, lifeUnit, serverUnit, execUnit, envUnit, tagUnit, leaseUnit, pipeUnit, inames, iplats, ipi, isi, istarted, imap, awaitUnit, stopUnit, targetUnit >>

\* buildStage with a StartContainer that succeeds: the stale container is
\* removed, the new one created and started, registered, and entered in the
\* stage map under the stage's name; then the next stage, the next platform
\* or the end of the run.
IdStart ==
    /\ ipc = "stage"
    /\ LET id == containerID(inames[isi], isi - 1, iplats[ipi])
           start == Len(istarted) + 1
       IN /\ istarted' = Append(istarted, [pi |-> ipi, si |-> isi, id |-> id,
                                           platform |-> iplats[ipi],
                                           name |-> inames[isi]])
          /\ ikilled' = ikilled \cup { [start |-> c.start, pi |-> ipi, si |-> isi] :
                                       c \in ilive \ removeStale(ilive, id) }
          /\ ilive' = removeStale(ilive, id) \cup { [id |-> id, start |-> start] }
          /\ imap' = StagesPut(imap, inames[isi], isi - 1, start)
    /\ IF isi < Len(inames)
       THEN isi' = isi + 1 /\ UNCHANGED << ipi, ipc >>
       ELSE IF ipi < Len(iplats)
       THEN ipi' = ipi + 1 /\ ipc' = "platform" /\ isi' = isi
       ELSE ipc' = "done" /\ UNCHANGED << ipi, isi >>
    /\ UNCHANGED << main, state, stateUnit, stepsUnit, parseUnit, lifeUnit, serverUnit, execUnit, envUnit, tagUnit, leaseUnit, pipeUnit, inames, iplats, awaitUnit, stopUnit, targetUnit >>

IdNext == IdPlatform \/ IdStartFails \/ IdStart

IdSpec == IdInit /\ [][IdNext]_vars

\* ========================================================== exec processes
\* execProcess and awaitProcess, with the doneReader around the stdin and the
\* goroutines that read it (the copy into the process's stdin FIFO).
Readers == 1..MaxReaders
ReadResults == { "data", "EOF", "error" }

\* A request to the engine as elog keeps it.
Request(req, ok) == [req |-> req, ok |-> ok]

processDeleteSkipped(log, ok) == log

\* process.Delete(ctx): the request is made; its result is not looked at.
processDelete(log, ok) == Append(log, Request("Delete", ok))

\* Outcomes of process.Delete (called without the kill option): the engine
\* refuses to delete a process that is running.
DeleteOutcomes(p) == IF p = "running" THEN { FALSE } ELSE BOOLEAN

\* The process after a Delete.
deleted(p, ok) == IF ok THEN "gone" ELSE p

onceDoAlways(ran) == TRUE

\* sync.Once.Do: the function runs unless it has run.
onceDo(ran) == ~ran

AwaitInit ==
    /\ MainIdle /\ StateIdle /\ StepsIdle /\ ParseIdle /\ LifeIdle /\ ServerIdle /\ ExecIdle /\ EnvIdle /\ TagIdle /\ LeaseIdle /\ PipeIdle /\ IdIdle /\ StopIdle /\ TargetIdle
    /\ state = NoState
    /\ epc = "load"
    /\ eproc = "none"
    /\ elog = << >>
    /\ eret = "none"
    /\ estdin \in BOOLEAN
    /\ eonce = FALSE
    /\ ecloses = 0
    /\ eeofs = 0
    /\ ereads = 0
    /\ erpc = [g \in Readers |-> "idle"]
    /\ ecloser = "none"

\* loadTask: the container and its task are loaded, or execProcess returns
\* the error.
ELoadTask ==
    /\ epc = "load"
    /\ \E ok \in BOOLEAN :
         IF ok THEN epc' = "exec" /\ eret' = eret
         ELSE epc' = "done" /\ eret' = "error"
    /\ UNCHANGED << main, state, stateUnit, stepsUnit, parseUnit, lifeUnit, serverUnit, execUnit, envUnit, tagUnit, leaseUnit, pipeUnit, idUnit, eproc, elog, estdin, eonce, ecloses, eeofs, ereads, erpc, ecloser, stopUnit, targetUnit >>

\* task.Exec with the (wrapped) streams: the process is created, or
\* execProcess returns the error.
EExec ==
    /\ epc = "exec"
    /\ \E ok \in BOOLEAN :
         /\ elog' = Append(elog, Request("Exec", ok))
         /\ IF ok THEN eproc' = "created" /\ epc' = "wait" /\ eret' = eret
            ELSE eproc' = eproc /\ epc' = "done" /\ eret' = "error"
    /\ UNCHANGED << main, state, stateUnit, stepsUnit, parseUnit, lifeUnit, serverUnit, execUnit, envUnit, tagUnit, leaseUnit, pipeUnit, idUnit, estdin, eonce, ecloses, eeofs, ereads, erpc, ecloser, stopUnit, targetUnit >>

\* awaitProcess: process.Wait; on an error the process is deleted and the
\* error returned.
EWait ==
    /\ epc = "wait"
    /\ \E ok \in BOOLEAN, del \in DeleteOutcomes(eproc) :
         IF ok
         THEN /\ elog' = Append(elog, Request("Wait", TRUE))
              /\ epc' = "start"
              /\ UNCHANGED << eproc, eret >>
         ELSE /\ elog' = processDelete(Append(elog, Request("Wait", FALSE)), del)
              /\ eproc' = deleted(eproc, del)
              /\ epc' = "done" /\ eret' = "error"
    /\ UNCHANGED << main, state, stateUnit, stepsUnit, parseUnit, lifeUnit, serverUnit, execUnit, envUnit, tagUnit, leaseUnit, pipeUnit, idUnit, estdin, eonce, ecloses, eeofs, ereads, erpc, ecloser, stopUnit, targetUnit >>

\* awaitProcess: process.Start; on an error the process is deleted and the
\* error returned; otherwise the goroutine that closes the stdin is started
\* when a stdin was given, and awaitProcess waits for the exit status.
EStart ==
    /\ epc = "start"
    /\ \E ok \in BOOLEAN, del \in DeleteOutcomes(eproc) :
         IF ok
         THEN /\ elog' = Append(elog, Request("Start", TRUE))
              /\ eproc' = "running"
              /\ ecloser' = IF estdin THEN "waiting" ELSE ecloser
              /\ epc' = "status"
              /\ eret' = eret
         ELSE /\ elog' = processDelete(Append(elog, Request("Start", FALSE)), del)
              /\ eproc' = deleted(eproc, del)
              /\ ecloser' = ecloser
              /\ epc' = "done" /\ eret' = "error"
    /\ UNCHANGED << main, state, stateUnit, stepsUnit, parseUnit, lifeUnit, serverUnit, execUnit, envUnit, tagUnit, leaseUnit, pipeUnit, idUnit, estdin, eonce, ecloses, eeofs, ereads, erpc, stopUnit, targetUnit >>

\* The process exits in the container.
EExit ==
    /\ eproc = "running"
    /\ eproc' = "exited"
    /\ UNCHANGED << main, state, stateUnit, stepsUnit, parseUnit, lifeUnit, serverUnit, execUnit, envUnit, tagUnit, leaseUnit, pipeUnit, idUnit, epc, elog, eret, estdin, eonce, ecloses, eeofs, ereads, erpc, ecloser, stopUnit, targetUnit >>

\* awaitProcess: exitStatus := <-statusC, then process.Delete, then the
\* result: the exit code of a process that exited, or the error of a wait
\* that ended without it (the context was cancelled, the engine went away).
EStatus ==
    /\ epc = "status"
    /\ \E failed \in BOOLEAN, del \in DeleteOutcomes(eproc) :
         /\ ~failed => eproc = "exited"
         /\ elog' = processDelete(elog, del)
         /\ eproc' = deleted(eproc, del)
         /\ eret' = IF failed THEN "error" ELSE "code"
    /\ epc' = "done"
    /\ UNCHANGED << main, state, stateUnit, stepsUnit, parseUnit, lifeUnit, serverUnit, execUnit, envUnit, tagUnit, leaseUnit, pipeUnit, idUnit, estdin, eonce, ecloses, eeofs, ereads, erpc, ecloser, stopUnit, targetUnit >>

\* doneReader.Read, first half: a goroutine's Read of the wrapped reader
\* returns.
ERead ==
    /\ estdin
    /\ \E i \in 1..Len(elog) : elog[i] = Request("Exec", TRUE)
    /\ ereads < MaxReads
    /\ \E g \in Readers, r \in ReadResults :
         /\ erpc[g] = "idle"
         /\ erpc' = [erpc EXCEPT ![g] = r]
    /\ ereads' = ereads + 1
    /\ UNCHANGED << main, state, stateUnit, stepsUnit, parseUnit, lifeUnit, serverUnit, execUnit, envUnit, tagUnit, leaseUnit, pipeUnit, idUnit, epc, eproc, elog, eret, estdin, eonce, ecloses, eeofs, ecloser, stopUnit, targetUnit >>

\* doneReader.Read, second half: on io.EOF the done channel is closed through
\* the sync.Once; the result is returned.
EReadReturn ==
    /\ \E g \in Readers :
         /\ erpc[g] # "idle"
         /\ erpc' = [erpc EXCEPT ![g] = "idle"]
         /\ IF erpc[g] = "EOF"
            THEN /\ eeofs' = eeofs + 1
                 /\ eonce' = TRUE
                 /\ ecloses' = IF onceDo(eonce) THEN ecloses + 1 ELSE ecloses
            ELSE UNCHANGED << eeofs, eonce, ecloses >>
    /\ UNCHANGED << main, state, stateUnit, stepsUnit, parseUnit, lifeUnit, serverUnit, execUnit, envUnit, tagUnit, leaseUnit, pipeUnit, idUnit, epc, eproc, elog, eret, estdin, ereads, ecloser, stopUnit, targetUnit >>

\* The goroutine of awaitProcess: <-stdinDone, then process.CloseIO with the
\* stdin closer.
ECloseIO ==
    /\ ecloser = "waiting"
    /\ ecloses > 0
    /\ \E ok \in BOOLEAN : elog' = Append(elog, Request("CloseIO", ok))
    /\ ecloser' = "called"
    /\ UNCHANGED << main, state, stateUnit, stepsUnit, parseUnit, lifeUnit, serverUnit, execUnit, envUnit, tagUnit, leaseUnit, pipeUnit, idUnit, epc, eproc, eret, estdin, eonce, ecloses, eeofs, ereads, erpc, stopUnit, targetUnit >>

AwaitNext ==
    \/ ELoadTask \/ EExec \/ EWait \/ EStart \/ EExit \/ EStatus
    \/ ERead \/ EReadReturn \/ ECloseIO

AwaitSpec == AwaitInit /\ [][AwaitNext]_vars

\* ------------------------------------------------------------ export target
\* buildExportTarget: the image root is resolved to one manifest, the manifest
\* and its config are rewritten, and the root of the archive is built.  A
\* platform is its os, architecture and variant; a blob's digest is modelled
\* by the content it addresses.

OCIPlatform(os, arch, variant) == [os |-> os, architecture |-> arch, variant |-> variant]

Amd64 == OCIPlatform("linux", "amd64", "")

ArmV7 == OCIPlatform("linux", "arm", "v7")

ArmV6 == OCIPlatform("linux", "arm", "v6")

\* A descriptor without a platform field (Platform == nil).
NoPlatform == OCIPlatform("", "", "")

Platforms == { Amd64, ArmV7, ArmV6 }

\* platforms.Only: the platform itself and the older variants it can run.
Only(p) ==
    IF p = ArmV7 THEN { ArmV7, ArmV6 } ELSE { p }

\* platforms.OnlyStrict: os, architecture and variant are all equal.
OnlyStrict(p) == { p }

Match(matcher, p) == p \in matcher

Config(p, diffIDs, entrypoint, cmd) ==
    [platform |-> p, diffIDs |-> diffIDs, Entrypoint |-> entrypoint, Cmd |-> cmd]

Manifest(layers, config) ==
    [readable |-> TRUE, layers |-> layers, config |-> config]

\* A blob that readManifest or readConfig cannot load.
Unreadable ==
    [readable |-> FALSE, layers |-> << >>, config |-> Config(NoPlatform, << >>, << >>, << >>)]

BaseLayers == << "sha256:layer0", "sha256:layer1" >>

BaseDiffIDs == << "sha256:diff0", "sha256:diff1" >>

BaseManifest(p, n, entrypoint, cmd) ==
    Manifest(SubSeq(BaseLayers, 1, n), Config(p, SubSeq(BaseDiffIDs, 1, n), entrypoint, cmd))

Entrypoints == { << >>, << "/bin/base" >> }

Cmds == { << >>, << "serve" >> }

RootManifests ==
    { BaseManifest(p, n, e, c) : p \in Platforms, n \in 0..MaxLayers, e \in Entrypoints, c \in Cmds }
        \cup { Unreadable }

EntryManifests ==
    { BaseManifest(p, 1, << "/bin/base" >>, << >>) : p \in Platforms } \cup { Unreadable }

Descriptor(mediaType, p, m) == [mediaType |-> mediaType, platform |-> p, m |-> m]

IndexEntries ==
    { Descriptor(t, p, m) : t \in { "manifest", "other" }, p \in Platforms \cup { NoPlatform }, m \in EntryManifests }

Indexes == UNION { [1..n -> IndexEntries] : n \in 0..MaxIndex }

ImageRoot(mediaType, m, manifests) == [mediaType |-> mediaType, m |-> m, manifests |-> manifests]

ImageRoots ==
    { ImageRoot("manifest", m, << >>) : m \in RootManifests }
        \cup { ImageRoot("index", Unreadable, ms) : ms \in Indexes }

Overrides == { << >>, << "/app" >> }

NewLayer == "sha256:snapshot"

NewDiffID == "sha256:snapshotdiff"

\* configPlatform: the platform declared by the config of a manifest entry.
configPlatform(m) ==
    [ok |-> m.m.readable, platform |-> m.m.config.platform]

Least(S) == CHOOSE i \in S : \A j \in S : i <= j

matchManifestDeclaredOnly(manifests, matcher) ==
    LET declared == { i \in DOMAIN manifests :
                        /\ manifests[i].platform # NoPlatform
                        /\ Match(matcher, manifests[i].platform) }
    IN  IF declared # {} THEN [i |-> Least(declared), ok |-> TRUE]
        ELSE [i |-> 0, ok |-> FALSE]

\* matchManifest: the first entry whose platform field matches; failing that,
\* the first manifest entry without a platform field whose config matches.
\* Positions count from 1.
matchManifest(manifests, matcher) ==
    LET declared == { i \in DOMAIN manifests :
                        /\ manifests[i].platform # NoPlatform
                        /\ Match(matcher, manifests[i].platform) }
        probed == { i \in DOMAIN manifests :
                        /\ manifests[i].platform = NoPlatform
                        /\ manifests[i].mediaType = "manifest"
                        /\ configPlatform(manifests[i]).ok
                        /\ Match(matcher, configPlatform(manifests[i]).platform) }
    IN  IF declared # {} THEN [i |-> Least(declared), ok |-> TRUE]
        ELSE IF probed # {} THEN [i |-> Least(probed), ok |-> TRUE]
        ELSE [i |-> 0, ok |-> FALSE]

Resolved(e, desc, index, i) == [err |-> e, desc |-> desc, index |-> index, i |-> i]

\* resolveManifestDescriptor: index reports whether the root was an index.
resolveManifestDescriptor(root, platform) ==
    IF root.mediaType # "index"
    THEN Resolved("none", Descriptor(root.mediaType, NoPlatform, root.m), FALSE, 0)
    ELSE LET r == matchManifest(root.manifests, OnlyStrict(platform))
         IN  IF r.ok THEN Resolved("none", root.manifests[r.i], TRUE, r.i)
             ELSE IF Len(root.manifests) = 0
                  THEN Resolved("ErrEmptyIndex", Descriptor("none", NoPlatform, Unreadable), FALSE, 0)
                  ELSE Resolved("none", root.manifests[1], TRUE, 1)

mutateKeepsEntrypoint(m, layer, diffID, entrypoint) ==
    Manifest(Append(m.layers, layer),
             Config(m.config.platform, Append(m.config.diffIDs, diffID),
                    m.config.Entrypoint, m.config.Cmd))

\* The mutation Export passes to buildExportTarget.
mutate(m, layer, diffID, entrypoint) ==
    Manifest(Append(m.layers, layer),
             Config(m.config.platform, Append(m.config.diffIDs, diffID),
                    IF Len(entrypoint) > 0 THEN entrypoint ELSE m.config.Entrypoint,
                    IF Len(entrypoint) > 0 THEN << >> ELSE m.config.Cmd))

ConfigLabel == "containerd.io/gc.ref.content.config"

LayerLabel(i) == "containerd.io/gc.ref.content.l." \o ToString(i)

ManifestLabel(i) == "containerd.io/gc.ref.content.m." \o ToString(i)

manifestGCLabelsBaseOnly(m) ==
    [k \in { ConfigLabel } \cup { LayerLabel(i) : i \in 0..(Len(m.layers) - 2) } |->
        IF k = ConfigLabel THEN m.config
        ELSE m.layers[1 + CHOOSE i \in 0..(Len(m.layers) - 2) : LayerLabel(i) = k]]

\* manifestGCLabels: label keys count layers from 0.
manifestGCLabels(m) ==
    [k \in { ConfigLabel } \cup { LayerLabel(i) : i \in 0..(Len(m.layers) - 1) } |->
        IF k = ConfigLabel THEN m.config
        ELSE m.layers[1 + CHOOSE i \in 0..(Len(m.layers) - 1) : LayerLabel(i) = k]]

\* indexGCLabels
indexGCLabels(manifests) ==
    [k \in { ManifestLabel(i) : i \in 0..(Len(manifests) - 1) } |->
        manifests[1 + CHOOSE i \in 0..(Len(manifests) - 1) : ManifestLabel(i) = k].m]

\* writeBlob with content.WithLabels: the descriptor of the stored blob, and
\* the labels stored with it.
writeBlob(mediaType, v, labels) ==
    [mediaType |-> mediaType, platform |-> NoPlatform, m |-> v, labels |-> labels]

\* mutateManifest: the config is written first and the manifest refers to it.
mutateManifest(desc, layer, diffID, entrypoint) ==
    IF ~desc.m.readable
    THEN [err |-> "read", desc |-> writeBlob("none", Unreadable, << >>)]
    ELSE LET manifest == mutate(desc.m, layer, diffID, entrypoint)
         IN  [err |-> "none", desc |-> writeBlob(desc.mediaType, manifest, manifestGCLabels(manifest))]

buildImageTargetKeepsEntries(index, root, i, newManifest) ==
    IF ~index THEN [mediaType |-> newManifest.mediaType, manifests |-> << newManifest >>, labels |-> newManifest.labels]
    ELSE LET ms == [root.manifests EXCEPT ![i] = newManifest]
         IN  [mediaType |-> root.mediaType, manifests |-> ms, labels |-> indexGCLabels(ms)]

\* buildImageTarget: the manifest itself, or the index rewritten to hold only
\* the new manifest.  manifests lists the images under the returned root.
buildImageTarget(index, root, i, newManifest) ==
    IF ~index THEN [mediaType |-> newManifest.mediaType, manifests |-> << newManifest >>, labels |-> newManifest.labels]
    ELSE LET ms == << newManifest >>
         IN  [mediaType |-> root.mediaType, manifests |-> ms, labels |-> indexGCLabels(ms)]

TargetInit ==
    /\ MainIdle /\ StateIdle /\ StepsIdle /\ ParseIdle /\ LifeIdle /\ ServerIdle /\ ExecIdle /\ EnvIdle /\ TagIdle /\ LeaseIdle /\ PipeIdle /\ IdIdle /\ AwaitIdle /\ StopIdle
    /\ state = NoState
    /\ troot \in ImageRoots
    /\ tplat \in Platforms
    /\ tentry \in Overrides
    /\ tpc = "resolve"
    /\ tsel = "none"
    /\ tman = "none"
    /\ ttarget = "none"

TResolve ==
    /\ tpc = "resolve"
    /\ LET r == resolveManifestDescriptor(troot, tplat)
       IN  /\ tsel' = r
           /\ tpc' = IF r.err # "none" THEN "failed" ELSE "mutate"
    /\ UNCHANGED << main, state, stateUnit, stepsUnit, parseUnit, lifeUnit, serverUnit, execUnit, envUnit, tagUnit, leaseUnit, pipeUnit, idUnit, awaitUnit, stopUnit, troot, tplat, tentry, tman, ttarget >>

TMutate ==
    /\ tpc = "mutate"
    /\ LET r == mutateManifest(tsel.desc, NewLayer, NewDiffID, tentry)
       IN  /\ tman' = r
           /\ tpc' = IF r.err # "none" THEN "failed" ELSE "build"
    /\ UNCHANGED << main, state, stateUnit, stepsUnit, parseUnit, lifeUnit, serverUnit, execUnit, envUnit, tagUnit, leaseUnit, pipeUnit, idUnit, awaitUnit, stopUnit, troot, tplat, tentry, tsel, ttarget >>

TBuild ==
    /\ tpc = "build"
    /\ ttarget' = buildImageTarget(tsel.index, troot, tsel.i, tman.desc)
    /\ tpc' = "done"
    /\ UNCHANGED << main, state, stateUnit, stepsUnit, parseUnit, lifeUnit, serverUnit, execUnit, envUnit, tagUnit, leaseUnit, pipeUnit, idUnit, awaitUnit, stopUnit, troot, tplat, tentry, tsel, tman >>

TargetNext == TResolve \/ TMutate \/ TBuild

TargetSpec == TargetInit /\ [][TargetNext]_vars

\* ================================================================== claims
Handles == 1..Len(destroys)
Registered(k) == \E i \in 1..Len(containers) : containers[i].h = k
NonTransient == { s \in 1..Len(recipe) : ~recipe[s].transient }
RunsOf(p) == { i \in 1..Len(stageRuns) : stageRuns[i].pi = p }
Succeeded == pc = "Done" /\ err = "nil"
ArchiveOf(p) == exportPath(platformOutput(platforms, platforms[p]))

\* C1: every container returned by a successful StartContainer is registered
\* for destruction from the moment it is started (so before any step of its
\* stage runs), has received no Destroy while build is still running its
\* platforms, at most one during the cleanup, and exactly one once Run has
\* returned, whatever the outcome of the run.
C1_DestroyedOnceAtReturn ==
    /\ \A k \in Handles : Registered(k)
    /\ \A k \in Handles : destroys[k] <= 1
    /\ pc \notin { "Cleanup", "Done" } => \A k \in Handles : destroys[k] = 0
    /\ pc = "Cleanup" =>
         \A i \in 1..Len(containers) :
            destroys[containers[i].h] = IF i < di THEN 1 ELSE 0
    /\ pc = "Done" => \A k \in Handles : destroys[k] = 1

\* A failed run over two platforms has returned, with the containers of both
\* platforms destroyed once each.
C1_Witness ==
    /\ pc = "Done" /\ err # "nil" /\ pi = 2
    /\ Len(destroys) >= 2
    /\ \A k \in Handles : destroys[k] = 1

\* C2: when the caller's context was cancelled while Run was executing, every
\* registered container has been destroyed (it no longer exists in the
\* engine, so no task is left running) when Run returns.
C2_CancelledCleanupDestroysAll ==
    (pc = "Done" /\ cancelled) =>
        \A i \in 1..Len(containers) :
            /\ containers[i].id \notin existing
            /\ containers[i].id \notin running

\* C3: an Export leaves the stored image records as they were: the record of
\* the stage's base image has the same target descriptor after Export as
\* before it.
C3_ExportKeepsImageRecord == [][pc = "Export" => images' = images]_vars

\* A stage run ended without an error.
RunOK(r) ==
    /\ r.finished /\ r.stepsOK
    /\ (r.stopCalled => r.stopOK)
    /\ (r.exportCalled => r.exportOK)

\* C4: once a stage has failed (container start, a step, Stop or Export), no
\* later stage and no later platform is started: the failed stage run is the
\* last one, build is in its cleanup or has returned, the only engine
\* operations issued since the failure are Destroy calls, Run returns an
\* error, and the archives on disk are those that were there when the stage
\* failed.
C4_FailureAborts ==
    /\ opsAfterFail \subseteq { "Destroy" }
    /\ err # "nil" => pc \in { "Cleanup", "Done" }
    /\ err # "nil" => << files, complete >> = fsAtFail
    /\ \A i \in 1..Len(stageRuns) :
          (stageRuns[i].finished /\ ~RunOK(stageRuns[i]))
             => (i = Len(stageRuns) /\ err # "nil")

\* The second platform failed after the first one had written its archive;
\* Run has returned the error, the archive of the first platform still there.
C4_Witness ==
    /\ pc = "Done" /\ err = "ErrRuntime" /\ pi = 2
    /\ ArchiveOf(1) \in complete
    /\ ArchiveOf(2) # ArchiveOf(1)
    /\ opsAfterFail = { "Destroy" }

\* C5 (as claimed): a finished stage has been stopped and exported if and
\* only if it is non-transient and all of its steps succeeded; Export begins
\* only after a successful Stop, and never for a transient stage.
C5_StoppedAndExportedIff ==
    \A i \in 1..Len(stageRuns) :
       LET r == stageRuns[i] IN
       /\ r.finished =>
            ((r.stopCalled /\ r.exportCalled)
                <=> (~recipe[r.si].transient /\ r.stepsOK))
       /\ r.exportCalled => (r.stopOK /\ ~recipe[r.si].transient)

\* C5 (amended): Stop is invoked for a stage if and only if the stage is
\* non-transient and all of its steps succeeded; Export is invoked if and
\* only if, in addition, that Stop returned success; Export begins only after
\* a successful Stop, and never for a transient stage.
C5_StopThenExport ==
    /\ \A i \in 1..Len(stageRuns) :
         LET r == stageRuns[i] IN
         /\ r.finished =>
              (r.stopCalled <=> (~recipe[r.si].transient /\ r.stepsOK))
         /\ r.finished => (r.exportCalled <=> (r.stopCalled /\ r.stopOK))
         /\ r.stopCalled => (~recipe[r.si].transient /\ r.stepsOK)
         /\ r.exportCalled => (r.stopOK /\ ~recipe[r.si].transient)
    /\ pc = "Export" => stageRuns[ThisRun].stopOK

\* A transient stage whose steps succeeded was left running and a later
\* non-transient stage was stopped and exported.
C5_Witness ==
    \E i, j \in 1..Len(stageRuns) :
       /\ stageRuns[i].finished /\ stageRuns[i].stepsOK
       /\ recipe[stageRuns[i].si].transient
       /\ Len(recipe[stageRuns[i].si].steps) > 0
       /\ stageRuns[j].finished /\ stageRuns[j].exportOK

\* Platform run p has completed successfully.
PlatformSucceeded(p) ==
    \/ p < pi
    \/ p = pi /\ err = "nil" /\ pc \in { "Cleanup", "Done" }

\* Stages for which platform run p called Export.
ExportedStages(p) == { stageRuns[i].si : i \in { j \in RunsOf(p) : stageRuns[j].exportCalled } }

\* C6 (as claimed): in every platform run that completed successfully,
\* exactly one stage was exported.
C6_ExactlyOneExport ==
    \A p \in 1..Len(platforms) :
       PlatformSucceeded(p) => Cardinality(ExportedStages(p)) = 1

\* C6 (amended): in every platform run that completed successfully, the
\* stages exported are exactly the non-transient stages of the recipe, each
\* by one successful Export call; so exactly one stage is exported exactly
\* when the recipe has exactly one non-transient stage, and none when every
\* stage is transient.
C6_ExportsAreNonTransientStages ==
    \A p \in 1..Len(platforms) :
       PlatformSucceeded(p) =>
          /\ ExportedStages(p) = NonTransient
          /\ Cardinality({ i \in RunsOf(p) : stageRuns[i].exportCalled })
                = Cardinality(NonTransient)
          /\ \A i \in RunsOf(p) : stageRuns[i].exportCalled => stageRuns[i].exportOK

\* A platform run over two non-transient stages completed: both were exported.
C6_Witness ==
    /\ Succeeded
    /\ Cardinality(NonTransient) = 2
    /\ Cardinality(ExportedStages(1)) = 2

\* The archive path <output>/image.tar and, for a platform string, the path
\* <output>/<slug>/image.tar with slug the platform with "/" replaced by "-".
RootArchive == << << "out" >>, << "image.tar" >> >>
SlugOf(platform) ==
    [i \in 1..Len(platform) |-> IF platform[i] = "/" THEN "-" ELSE platform[i]]
SlugArchive(platform) == << << "out" >>, SlugOf(platform), << "image.tar" >> >>
Requested == { platforms[i] : i \in 1..Len(platforms) }

\* C7 (as claimed): when Run over exactly one requested or defaulted platform
\* has returned success, exactly one archive has been written and it is at
\* <output>/image.tar.
C7_SingleArchiveAtRoot ==
    (Succeeded /\ Len(platforms) = 1) =>
        (files = { RootArchive } /\ complete = { RootArchive })

\* C7 (amended): when Run over exactly one requested or defaulted platform has
\* returned success and the recipe has at least one non-transient stage,
\* exactly one archive has been written and it is at <output>/image.tar; when
\* every stage is transient, Run returns success with no archive written.
C7_SingleArchiveIfExported ==
    (Succeeded /\ Len(platforms) = 1) =>
        /\ NonTransient # {} => (files = { RootArchive } /\ complete = { RootArchive })
        /\ NonTransient = {} => (files = {} /\ complete = {})

\* The defaulted platform built a recipe with a transient and a non-transient
\* stage and Run returned success with the archive at the root.
C7_Witness ==
    /\ Succeeded
    /\ optsPlatforms = << >> /\ platforms = defaultPlatforms
    /\ Cardinality(NonTransient) = 1 /\ Len(recipe) = 2
    /\ complete = { RootArchive }

\* C8 (as claimed): when Run over N > 1 requested platforms has returned
\* success, exactly N archives exist, one at <output>/<slug_i>/image.tar for
\* each list entry, and none at <output>/image.tar.
C8_OneArchivePerEntry ==
    (Succeeded /\ Len(platforms) > 1) =>
        /\ complete = { SlugArchive(q) : q \in Requested }
        /\ files = complete
        /\ Cardinality(complete) = Len(platforms)
        /\ RootArchive \notin files

\* C8 (amended): when Run over N > 1 requested platforms has returned success
\* and the recipe has at least one non-transient stage, the archives that
\* exist are exactly <output>/<slug_i>/image.tar for the list entries, one per
\* distinct platform of the list (N when the entries are pairwise different),
\* and none at <output>/image.tar; when every stage is transient no archive
\* exists.
C8_OneArchivePerDistinctPlatform ==
    (Succeeded /\ Len(platforms) > 1) =>
        /\ NonTransient # {} =>
             /\ complete = { SlugArchive(q) : q \in Requested }
             /\ files = complete
             /\ Cardinality(complete) = Cardinality(Requested)
        /\ NonTransient = {} => (files = {} /\ complete = {})
        /\ RootArchive \notin files

\* Two different platforms were built and Run returned success with the two
\* archives under their platform directories.
C8_Witness ==
    /\ Succeeded
    /\ Len(platforms) = 2 /\ platforms[1] # platforms[2]
    /\ NonTransient # {}
    /\ Cardinality(complete) = 2
    /\ SlugArchive(platforms[2]) \in complete

\* C9: while the steps of a stage execute, the container of that stage is not
\* in the stage map, and a cross-stage copy that resolved its stage prefix
\* read from a container other than the one it wrote to.
C9_VisibleOnlyAfterSteps ==
    /\ pc = "Steps" => \A n \in DOMAIN stages : stages[n].h # ctr.h
    /\ lastCopy.known => lastCopy.source # lastCopy.dest

\* Names declared by the stages of the recipe.
DeclaredNames == { recipe[s].name : s \in 1..Len(recipe) } \ { << >> }

\* C10: the keys of the stage map are declared names of the stages started so
\* far in the current platform run (an unnamed stage is never a key), and a
\* cross-stage copy whose stage prefix is not a key of the map (so any
\* undeclared name and any reference to an unnamed stage) fails with ErrCopy
\* having started no tar producer and no tar consumer; the error is the
\* unknown-stage error whenever the lookup is made, that is whenever the
\* directory of the destination could be made.
C10_UnknownStageFailsBeforeTar ==
    /\ DOMAIN stages \subseteq DeclaredNames
    /\ (lastCopy.cross /\ parseStageCopy(lastCopy.src).stage \notin DeclaredNames)
          => ~lastCopy.inMap
    /\ (lastCopy.cross /\ ~lastCopy.inMap) =>
          /\ lastCopy.failed
          /\ lastCopy.tars = {}
          /\ ~lastCopy.known
          /\ lastCopy.reached => lastCopy.unknown
          /\ err = "ErrCopy"

\* The second, unnamed stage referred to the first, unnamed stage by its
\* number: the lookup was made, failed, and no tar process was started.
C10_Witness ==
    /\ lastCopy.src = << "1", ":", "/", "f" >>
    /\ lastCopy.reached /\ lastCopy.unknown /\ lastCopy.failed
    /\ lastCopy.tars = {}
    /\ Len(recipe) = 2 /\ recipe[1].name = << >> /\ si = 2
    /\ err = "ErrCopy"

\* The stage run that started the container with handle k.
RunOfHandle(k) == CHOOSE i \in 1..Len(stageRuns) : stageRuns[i].h = k

\* C11: the stage map holds only containers started by the platform run that
\* is being built, with that run's platform, and a cross-stage copy that
\* resolved its prefix read from a container started by the same platform run
\* as the container it wrote to.
C11_StageMapPerPlatform ==
    /\ pc \in { "Stage", "Steps", "Stop", "Export" } =>
         \A n \in DOMAIN stages :
            /\ stages[n].platform = Platform
            /\ stageRuns[RunOfHandle(stages[n].h)].pi = pi
    /\ lastCopy.known =>
         stageRuns[RunOfHandle(lastCopy.source)].pi
            = stageRuns[RunOfHandle(lastCopy.dest)].pi

\* Building the second of two different platforms, the second stage copied
\* from the stage named a, which was built for the first platform too.
C11_Witness ==
    /\ pi = 2 /\ platforms[1] # platforms[2]
    /\ Len(recipe) = 2 /\ recipe[1].name = << "a" >>
    /\ lastCopy.known /\ ~lastCopy.failed
    /\ lastCopy.source # lastCopy.dest
    /\ stageRuns[RunOfHandle(lastCopy.dest)].pi = 2
    /\ \E i \in RunsOf(1) : stageRuns[i].si = 1 /\ stageRuns[i].h # 0

\* C12: resolve(step) returns a state whose shell and workdir are the step's
\* when non-empty and the receiver's otherwise and whose env is the receiver's
\* env overlaid by the step's, the step winning; the receiver is the same
\* after the call as before, so the persistent state the next step goes on
\* from is the one the operation step found.
C12_ResolveOverlaysAndKeepsReceiver ==
    resolved.made =>
        LET st == resolved.step
            b == resolved.before
            r == resolved.result
        IN /\ r.shell = IF st.shell # "" THEN st.shell ELSE b.shell
           /\ r.workdir = IF st.workdir # << >> THEN st.workdir ELSE b.workdir
           /\ DOMAIN r.env = DOMAIN b.env \cup DOMAIN st.env
           /\ \A k \in DOMAIN r.env :
                 r.env[k] = IF k \in DOMAIN st.env THEN st.env[k] ELSE b.env[k]
           /\ resolved.after = b

\* A state with shell, workdir and A set was resolved by an operation step
\* that overrides A and adds B; the persistent state still has the old A and
\* no B.
C12_Witness ==
    /\ resolved.made
    /\ resolved.before.shell = "/bin/bash"
    /\ resolved.before.workdir = << "/", "app" >>
    /\ "A" \in DOMAIN resolved.before.env /\ resolved.before.env["A"] = "1"
    /\ resolved.step.shell = "/bin/zsh" /\ resolved.step.workdir = << >>
    /\ DOMAIN resolved.step.env = { "A", "B" } /\ resolved.step.env["A"] = "2"
    /\ resolved.result.env["A"] = "2"
    /\ resolved.result.workdir = << "/", "app" >>
    /\ DOMAIN state.env = { "A" } /\ state.env["A"] = "1"

\* The apply calls, up to the i-th, that supplied a shell, a workdir, or the
\* env key k.
ShellCalls(i) == { j \in 1..i : calls[j].step.shell # "" }
WorkdirCalls(i) == { j \in 1..i : calls[j].step.workdir # << >> }
EnvCalls(i, k) == { j \in 1..i : k \in DOMAIN calls[j].step.env }
Last(S) == CHOOSE j \in S : \A l \in S : l <= j

\* C13: after any sequence of apply calls from new(), shell and workdir are
\* the last non-empty value supplied (or "/bin/sh" and the empty workdir), the
\* keys of env are the union of the keys supplied, each bound to the value
\* supplied last; an apply whose fields are all empty leaves the state as it
\* was.
C13_ApplyAccumulates ==
    \A i \in 1..Len(calls) :
       LET a == calls[i].after
           p == IF i = 1 THEN [shell |-> "/bin/sh", workdir |-> << >>,
                               env |-> << >>]
                ELSE calls[i - 1].after
       IN /\ a.shell = IF ShellCalls(i) = {} THEN "/bin/sh"
                       ELSE calls[Last(ShellCalls(i))].step.shell
          /\ a.workdir = IF WorkdirCalls(i) = {} THEN << >>
                         ELSE calls[Last(WorkdirCalls(i))].step.workdir
          /\ DOMAIN a.env = UNION { DOMAIN calls[j].step.env : j \in 1..i }
          /\ \A k \in DOMAIN a.env : a.env[k] = calls[Last(EnvCalls(i, k))].step.env[k]
          /\ calls[i].step = NoStep => a = p
          /\ i = Len(calls) => state = a

\* Two applies: the second overrides the shell and A, keeps the workdir and B.
C13_Witness ==
    /\ Len(calls) = 2
    /\ calls[1].step.shell = "/bin/bash" /\ calls[2].step.shell = "/bin/zsh"
    /\ calls[1].step.workdir = << "/", "app" >> /\ calls[2].step.workdir = << >>
    /\ DOMAIN calls[1].step.env = { "A", "B" }
    /\ DOMAIN calls[2].step.env = { "A" }
    /\ calls[1].step.env["A"] # calls[2].step.env["A"]
    /\ state.shell = "/bin/zsh" /\ state.workdir = << "/", "app" >>
    /\ state.env["A"] = calls[2].step.env["A"]
    /\ state.env["B"] = calls[1].step.env["B"]

\* C14: every stage run whose container started hands executeSteps a fresh
\* stepState (shell /bin/sh, empty workdir, empty env), whatever the steps of
\* the stages built before it, for this or for another platform, applied; the
\* first step of a stage finds that state.
C14_FreshStatePerStage ==
    LET fresh == [shell |-> "/bin/sh", workdir |-> << >>, env |-> << >>]
    IN /\ \A i \in 1..Len(stageRuns) :
             stageRuns[i].h # 0 => stageRuns[i].state0 = fresh
       /\ (pc = "Steps" /\ ki = 1) => state = fresh

\* Both stages of the recipe apply modifiers; they were built for two
\* platforms, each of the four stage runs starting from the fresh state
\* although the run before it had left a workdir and an env behind.
C14_Witness ==
    /\ Len(recipe) = 2 /\ Len(platforms) = 2
    /\ \A k \in 1..2 : Len(recipe[k].steps) = 1 /\ ~hasOp(recipe[k].steps[1])
    /\ Len(stageRuns) = 4
    /\ \A i \in 1..4 : stageRuns[i].stepsOK /\ stageRuns[i].state0.workdir = << >>
    /\ state.workdir = << "/", "app" >> /\ DOMAIN state.env = { "A" }

\* A state overlaid by the modifier fields of a step, and the fresh state.
Overlay(b, st) ==
    [shell |-> IF st.shell # "" THEN st.shell ELSE b.shell,
     workdir |-> IF st.workdir # << >> THEN st.workdir ELSE b.workdir,
     env |-> [k \in DOMAIN b.env \cup DOMAIN st.env |->
                IF k \in DOMAIN st.env THEN st.env[k] ELSE b.env[k]]]
FreshState == [shell |-> "/bin/sh", workdir |-> << >>, env |-> << >>]

\* C15: every executed step took one branch: with children, its modifiers go
\* into the persistent state, no run or copy of its own is executed, and its
\* first child comes next and finds them; without children and with a run or
\* a copy, one operation (the run when both are given) is executed on the
\* resolved state and the persistent state stays (no operation only when the
\* resolved workdir could not be made); otherwise its modifiers go into the
\* persistent state.  Every step finds the state the step before it left.
C15_OneBranchByPriority ==
    /\ \A i \in 1..Len(trace) :
         LET ev == trace[i]
             st == ev.step
             over == Overlay(ev.before, st)
         IN /\ ev.before = IF i = 1 THEN FreshState ELSE trace[i - 1].after
            /\ IF Len(st.steps) > 0
               THEN /\ ev.branch = "group"
                    /\ ev.after = over
                    /\ ev.op = "none"
                    /\ i < Len(trace) =>
                         /\ trace[i + 1].step = st.steps[1]
                         /\ trace[i + 1].before = over
               ELSE IF st.run # "" \/ st.copy # << >>
               THEN /\ ev.branch = "operation"
                    /\ ev.after = ev.before
                    /\ ev.resolved = over
                    /\ (ev.mkdir = "none") <=> (over.workdir = << >>)
                    /\ ev.op = IF ev.mkdir = "failed" THEN "none"
                               ELSE IF st.run # "" THEN "run" ELSE "copy"
               ELSE /\ ev.branch = "modifier"
                    /\ ev.after = over
                    /\ ev.op = "none"
    /\ state = IF trace = << >> THEN FreshState ELSE trace[Len(trace)].after

\* A group that has a run and a shell of its own was entered, its modifier
\* child and its operation child were executed, and the run that follows the
\* group was executed with the group's shell; the group's run never was.
C15_Witness ==
    /\ Len(trace) = 4
    /\ trace[1].branch = "group" /\ trace[1].step.run = "cmd"
    /\ trace[2].branch = "modifier" /\ trace[3].branch = "operation"
    /\ trace[4].branch = "operation" /\ trace[4].op = "run"
    /\ trace[4].step = [NoStep EXCEPT !.run = "cmd"]
    /\ trace[4].resolved.shell = "/bin/zsh"
    /\ serr = NoError /\ work = << >>

\* The steps of a list in declaration order, the children of a step after it
\* and before the step that follows it.
RECURSIVE PreOrder(_)
PreOrder(list) ==
    IF list = << >> THEN << >>
    ELSE << Head(list) >> \o PreOrder(Head(list).steps) \o PreOrder(Tail(list))

\* C16: the steps executed are an initial part of the declaration order of the
\* list, nested groups depth-first, all of it when executeSteps ends without
\* error; every executed step but the last succeeded, and the error of the
\* last is the one returned; a run whose Exec returned a result with a
\* non-zero exit code fails with ErrCommandFailed carrying that code and the
\* captured stderr, a run with exit code 0 succeeds.
C16_SerialOrderStopAtFailure ==
    LET order == PreOrder(steps)
    IN /\ Len(trace) <= Len(order)
       /\ \A i \in 1..Len(trace) : trace[i].step = order[i]
       /\ \A i \in 1..(Len(trace) - 1) : trace[i].err = NoError
       /\ serr = IF trace = << >> THEN NoError ELSE trace[Len(trace)].err
       /\ (serr = NoError /\ work = << >>) => Len(trace) = Len(order)
       /\ serr = NoError => Len(work) <= Len(order) - Len(trace)
       /\ \A i \in 1..Len(trace) :
            (trace[i].op = "run" /\ ~trace[i].result.failed) =>
                trace[i].err =
                   IF trace[i].result.exitCode # 0
                   THEN [kind |-> "ErrCommandFailed",
                         code |-> trace[i].result.exitCode,
                         stderr |-> trace[i].result.stderr]
                   ELSE NoError

\* The run that is the second child of a group exited with code 1 and
\* "boom" on stderr: executeSteps returned that error and the step after the
\* group was not executed.
C16_Witness ==
    /\ Len(steps) = 2 /\ Len(steps[1].steps) = 2
    /\ Len(trace) = 3
    /\ trace[3].op = "run" /\ trace[3].result.exitCode = 1
    /\ serr = [kind |-> "ErrCommandFailed", code |-> 1, stderr |-> "boom"]
    /\ Len(PreOrder(steps)) = 4

\* The white-space separated words of a string: where they start, and the
\* word that starts at i.
WordStarts(s) == { i \in 1..Len(s) : s[i] # " " /\ (i = 1 \/ s[i - 1] = " ") }
WordAt(s, i) ==
    LET j == CHOOSE j \in i..Len(s) :
                /\ \A k \in i..j : s[k] # " "
                /\ (j = Len(s) \/ s[j + 1] = " ")
    IN SubSeq(s, i, j)
FirstWord(s) == WordAt(s, CHOOSE i \in WordStarts(s) : \A j \in WordStarts(s) : i <= j)
LastWord(s) == WordAt(s, CHOOSE i \in WordStarts(s) : \A j \in WordStarts(s) : j <= i)
Absolute(path) == path # << >> /\ path[1] = "/"
NotSeparator(t) == t # "/"
Names(path) == SelectSeq(path, NotSeparator)

\* C17 (as claimed): parseCopy(input, workdir) succeeds exactly when the input
\* has two white-space separated words and the second is absolute or workdir
\* is not empty; then src is the first word and dest is an absolute path, the
\* second word itself when that is absolute.
C17_ParseCopyDestAbsolute ==
    parsed.made =>
        LET two == Cardinality(WordStarts(input.s)) = 2
        IN /\ parsed.ok <=> (two /\ (Absolute(LastWord(input.s))
                                      \/ input.workdir # << >>))
           /\ parsed.ok =>
                /\ parsed.src = FirstWord(input.s)
                /\ Absolute(parsed.dest)
                /\ Absolute(LastWord(input.s)) => parsed.dest = LastWord(input.s)

\* C17 (amended): parseCopy(input, workdir) succeeds exactly when the input
\* has two white-space separated words and the second is absolute or workdir
\* is not empty; then src is the first word, and dest is the second word
\* itself when that is absolute, and otherwise workdir joined with it, which
\* is an absolute path exactly when workdir is one.
C17_ParseCopyDestJoined ==
    parsed.made =>
        LET two == Cardinality(WordStarts(input.s)) = 2
        IN /\ parsed.ok <=> (two /\ (Absolute(LastWord(input.s))
                                      \/ input.workdir # << >>))
           /\ parsed.ok =>
                /\ parsed.src = FirstWord(input.s)
                /\ Absolute(LastWord(input.s)) => parsed.dest = LastWord(input.s)
                /\ ~Absolute(LastWord(input.s)) =>
                     /\ Absolute(parsed.dest) <=> Absolute(input.workdir)
                     /\ Names(parsed.dest)
                          = Names(input.workdir) \o Names(LastWord(input.s))
                     /\ \A i \in 1..(Len(parsed.dest) - 1) :
                           ~(parsed.dest[i] = "/" /\ parsed.dest[i + 1] = "/")

\* "a a/" with workdir /w gave src a and dest /w/a.
C17_Witness ==
    /\ parsed.made /\ parsed.ok
    /\ input.s = << "a", " ", "a", "/" >> /\ input.workdir = << "/", "w" >>
    /\ parsed.src = << "a" >>
    /\ parsed.dest = << "/", "w", "/", "a" >>

\* Positions of the colons of a string.
Colons(s) == { i \in 1..Len(s) : s[i] = ":" }
FirstColon(s) == CHOOSE i \in Colons(s) : \A j \in Colons(s) : i <= j

\* C18: parseStageCopy(s) returns ok exactly when s has a colon, its first
\* colon is not the first character, and no "/" comes before it; then stage
\* is the text before that colon and path the text after it; with a leading
\* colon or a "/" before the colon it is not ok (a host path).
C18_ParseStageCopyPrefix ==
    staged.made =>
        LET s == input.s
            good == /\ Colons(s) # {}
                    /\ FirstColon(s) >= 2
                    /\ \A j \in 1..(FirstColon(s) - 1) : s[j] # "/"
        IN /\ staged.ok <=> good
           /\ staged.ok =>
                /\ staged.stage = SubSeq(s, 1, FirstColon(s) - 1)
                /\ staged.path = SubSeq(s, FirstColon(s) + 1, Len(s))
                /\ staged.stage \o << ":" >> \o staged.path = s
           /\ (s # << >> /\ s[1] = ":") => ~staged.ok
           /\ (Colons(s) # {} /\ \E j \in 1..(FirstColon(s) - 1) : s[j] = "/")
                  => ~staged.ok

\* "a:/a:" is a cross-stage source: stage a, path /a: (the second colon is
\* part of the path).
C18_Witness ==
    /\ staged.made /\ staged.ok
    /\ input.s = << "a", ":", "/", "a", ":" >>
    /\ staged.stage = << "a" >>
    /\ staged.path = << "/", "a", ":" >>

\* What Status is to report for what the engine holds.
Lifecycle(b) ==
    IF ~b.exists THEN "NotCreated"
    ELSE IF b.task = "running" THEN "Running"
    ELSE "Stopped"
Answered(call) == call.op = "Status" /\ ~call.faulted

Missing(b) == ~b.exists \/ b.task = "none"

IsWritten(e) == e.written
Responses(k) == SelectSeq(k.out, IsWritten)

\* C21 (as claimed): when the server has closed a connection it has written
\* exactly one response on it, an error for an undecodable envelope, an
\* undecodable payload and an unknown command; no connection ever carries
\* two responses or has a second request taken from it.
C21_ExactlyOneResponse ==
    \A c \in Conns :
        LET k == conns[c]
        IN /\ Len(Responses(k)) <= 1
           /\ k.taken <= 1
           /\ k.pc = "closed" =>
                /\ Len(Responses(k)) = 1
                /\ k.req \in { "garbage", "unknown", "badbuild" }
                      => Responses(k)[1].cmd = "error"

\* C21 (amended): no connection ever carries two responses or has a second
\* request taken from it; when the server has closed a connection from which
\* it read a line, it has called respond exactly once, with an error for an
\* undecodable envelope, an undecodable payload and an unknown command, and
\* the response was written unless it could not be encoded; a connection
\* whose line could not be read is closed without a response.
C21_AtMostOneResponse ==
    \A c \in Conns :
        LET k == conns[c]
        IN /\ Len(Responses(k)) <= 1
           /\ Len(k.out) <= 1
           /\ k.taken <= 1
           /\ k.pc # "closed" => k.out = << >>
           /\ k.pc = "closed" =>
                /\ k.req = "eof" => (k.out = << >> /\ k.taken = 0)
                /\ k.req # "eof" => (Len(k.out) = 1 /\ k.taken = 1)
                /\ k.req \in { "garbage", "unknown", "badbuild" }
                      => k.out[1].cmd = "error"
                /\ (k.req = "build" /\ k.out[1].cmd = "ok") => k.ran = "ok"

\* An unknown command was answered with an error and the connection closed,
\* and a connection that sent no line was closed without a response.
C21_Witness ==
    \E c, d \in Conns :
        /\ conns[c].pc = "closed" /\ conns[c].req = "unknown"
        /\ Responses(conns[c]) = << [cmd |-> "error", written |-> TRUE] >>
        /\ conns[d].pc = "closed" /\ conns[d].req = "eof"
        /\ conns[d].out = << >>

\* The build handlers that have incremented the counter.
Counted == { c \in Conns : conns[c].counted }

\* C22: the counter is the number of build handlers that have incremented
\* it, each of them a build whose Run succeeded; a build whose handler has
\* finished is counted exactly when its Run succeeded; and a status reports
\* the number of builds counted when it read the counter.
C22_NoLostIncrement ==
    /\ builds = Cardinality(Counted)
    /\ \A c \in Conns :
        LET k == conns[c]
        IN /\ k.counted => (k.req = "build" /\ k.ran = "ok")
           /\ (k.pc = "closed" /\ k.req = "build")
                 => (k.counted <=> k.ran = "ok")
           /\ k.reported # -1 => k.reported = k.atRead
           /\ (k.pc = "closed" /\ k.req = "status") => k.reported # -1

\* Two builds succeeded and a status then reported 2.
C22_Witness ==
    \E c \in Conns :
        /\ conns[c].req = "status" /\ conns[c].pc = "closed"
        /\ conns[c].reported = 2
        /\ builds = 2

\* C23: the identifiers nextExecID has returned are pairwise distinct, also
\* when calls overlap, and differ from those of the calls still in progress;
\* the sequence numbers are strictly increasing in the order of the
\* additions, and each identifier is exec-<n> for the number its call
\* obtained.
C23_ExecIdsDistinct ==
    /\ \A i, j \in 1..Len(execIds) : i # j => execIds[i] # execIds[j]
    /\ \A g \in Goroutines : execCalls[g].pc = "added" =>
          /\ \A i \in 1..Len(execIds) : execIds[i] # execID(execCalls[g].n)
          /\ \A h \in Goroutines :
                (h # g /\ execCalls[h].pc = "added")
                    => execCalls[h].n # execCalls[g].n
    /\ \A i \in 1..(Len(execAdds) - 1) : execAdds[i] < execAdds[i + 1]
    /\ \A i \in 1..Len(execIds) :
          \E j \in 1..Len(execAdds) : execIds[i] = << "exec", "-", ToString(execAdds[j]) >>
    /\ Len(execIds) <= Len(execAdds)

\* Two overlapping calls returned in the opposite order of their additions,
\* with different identifiers.
C23_Witness ==
    /\ Len(execIds) >= 2
    /\ execIds[1] = << "exec", "-", "2" >>
    /\ execIds[2] = << "exec", "-", "1" >>

\* An entry is well-formed when it has a "="; its key is the text before the
\* first "=", its value the text after it.
WellFormed(e) == \E i \in 1..Len(e) : e[i] = "="
FirstEq(e) == CHOOSE i \in 1..Len(e) : e[i] = "=" /\ \A j \in 1..(i - 1) : e[j] # "="
KeyOf(e) == SubSeq(e, 1, FirstEq(e) - 1)
ValueOf(e) == SubSeq(e, FirstEq(e) + 1, Len(e))
KeysIn(list) == { KeyOf(list[i]) : i \in { j \in 1..Len(list) : WellFormed(list[j]) } }
LastValue(list, k) ==
    LET at == { i \in 1..Len(list) : WellFormed(list[i]) /\ KeyOf(list[i]) = k }
    IN ValueOf(list[CHOOSE i \in at : \A j \in at : j <= i])

\* C24: the result of mergeEnv(base, overrides) holds exactly one entry
\* K=V for each key of a well-formed entry of either list, with the value of
\* the key's last entry in overrides when it has one there and of its last
\* entry in base otherwise; entries without "=" leave no trace, and the value
\* is everything after the first "=".
C24_MergeEnvOverridesWin ==
    envOut.made =>
        LET out == envOut.list
            keys == KeysIn(envIn.base) \cup KeysIn(envIn.overrides)
        IN /\ Len(out) = Cardinality(keys)
           /\ \A i \in 1..Len(out) : WellFormed(out[i]) /\ KeyOf(out[i]) \in keys
           /\ \A k \in keys :
                \E i \in 1..Len(out) :
                    /\ KeyOf(out[i]) = k
                    /\ ValueOf(out[i]) =
                          IF k \in KeysIn(envIn.overrides)
                          THEN LastValue(envIn.overrides, k)
                          ELSE LastValue(envIn.base, k)

\* A=1=2 and B=1 merged with A=2 and an entry without "=": A=2 and B=1.
C24_Witness ==
    /\ envOut.made
    /\ envIn.base = << << "A", "=", "1", "=", "2" >>, << "B", "=", "1" >> >>
    /\ envIn.overrides = << << "A", "=", "2" >>, << "A" >> >>
    /\ envOut.list = << << "B", "=", "1" >>, << "A", "=", "2" >> >>

Events(ev) == { i \in 1..Len(xlog) : xlog[i].ev = ev }
MutatedWrites == { "write-config", "write-manifest", "write-index" }
BlobOf(ev) ==
    CASE ev = "write-config" -> "config"
      [] ev = "write-manifest" -> "manifest"
      [] ev = "write-index" -> "index"

\* C26: in Export every write of a mutated config, manifest or index blob
\* and the archive write come after the lease was acquired and while it is
\* held, and those blobs stay in the content store until Export returns;
\* once Export has returned, the lease it acquired has been released as the
\* last thing it did, also when its context was cancelled or building the
\* target or writing the archive failed; Export returns nil after the
\* archive was written and an ErrRuntime otherwise.
C26_LeaseAroundEphemeralWrites ==
    /\ \A i \in 1..Len(xlog) :
          xlog[i].ev \in MutatedWrites \cup { "archive" } =>
              /\ xlog[i].lease = "held"
              /\ \E j \in 1..(i - 1) : xlog[j].ev = "acquire"
              /\ Events("release") = {} \/ \A j \in Events("release") : i < j
    /\ \A i \in 1..Len(xlog) :
          (xlog[i].ev \in MutatedWrites /\ xpc # "done")
              => BlobOf(xlog[i].ev) \in blobs
    /\ lease = "released" => xpc = "done"
    /\ xpc = "done" =>
          /\ xerr \in { "nil", "ErrRuntime" }
          /\ xerr = "nil" <=> Events("archive") # {}
          /\ Events("acquire") # {} =>
                /\ lease = "released"
                /\ xlog[Len(xlog)].ev = "release"
                /\ Cardinality(Events("release")) = 1
          /\ Events("acquire") = {} => (lease = "none" /\ Events("release") = {})
    /\ xpc \notin { "done", "idle" } =>
          (lease = "held" <=> Events("acquire") # {})

\* The context was cancelled after the config and the manifest were written
\* under the lease: Export returned an ErrRuntime and released the lease.
C26_Witness ==
    /\ xpc = "done" /\ xerr = "ErrRuntime" /\ xcancelled
    /\ Events("write-config") # {} /\ Events("write-manifest") # {}
    /\ Events("archive") = {}
    /\ lease = "released"

\* The stage copy has returned.
StageReturned == cdir = "stage" /\ cpc = "returned"
ConsumerOK == cexit = "0"
ProducerOK == perr = "nil"

\* C27: a cross-stage copy returns nil only if the tar of the source
\* container and the tar of the destination container both succeeded; when
\* both failed the error returned is the consumer's; the producer's error is
\* read (from errc) only once CopyTo has returned nil.
C27_StageCopyConsumerFirst ==
    /\ (StageReturned /\ cret = "nil") => (ConsumerOK /\ ProducerOK)
    /\ (StageReturned /\ ~ConsumerOK) => cret = "consumer"
    /\ (StageReturned /\ ConsumerOK) =>
          cret = IF ProducerOK THEN "nil" ELSE "producer"
    /\ (cdir = "stage" /\ (cpc = "errc" \/ errc = "taken")) => ConsumerOK

\* Both sides of a cross-stage copy failed, and the copy returned the
\* consumer's error with the producer's still unread in errc.
C27_Witness ==
    /\ StageReturned
    /\ cexit = "1" /\ perr = "error"
    /\ errc = "error"
    /\ cret = "consumer"

\* The producer is in a write into the pipe that nothing will read.
ProducerBlocked ==
    /\ copier = "stopped"
    /\ \/ pstate = "writing" /\ cwritten < ctotal
       \/ pstate = "footer"

\* C28: in both directions the write end is closed with the producer's error
\* attached, so that the consumer reads a clean end of stream exactly when the
\* producer succeeded and an error when it failed; and once the copy has
\* returned, with or without an error, the producer is not blocked in a write
\* into the pipe.
C28_ProducerErrorAttachedNoneBlocked ==
    /\ wend = "eof" => perr = "nil"
    /\ wend = "error" => perr = "error"
    /\ cpc = "returned" => ~ProducerBlocked

\* C29: a copy always terminates: also when the host-side producer fails
\* part-way and closes the pipe with its error, or the tar of the source
\* container exits with an error, the consumer gets the end of its input, the
\* wait for it completes and the copy returns.
C29_CopyTerminates == <>(cpc = "returned")

\* The step about to be executed is a cross-stage copy whose stage prefix is
\* a key of the stage map.
ResolvingCopy ==
    /\ pc = "Steps"
    /\ Stage.steps[ki].copy # << >>
    /\ parseStageCopy(Stage.steps[ki].copy).ok
    /\ parseStageCopy(Stage.steps[ki].copy).stage \in DOMAIN stages
CopySource == stages[parseStageCopy(Stage.steps[ki].copy).stage]

\* C30: when a cross-stage copy resolves a stage name in the stage map, the
\* container it resolves to exists and its task is running; while the stages
\* of a platform are being built no container of the stage map has been
\* stopped or destroyed, whether its stage is transient or not.
C30_CopySourceRunning ==
    /\ ResolvingCopy =>
          (CopySource.id \in existing /\ CopySource.id \in running)
    /\ pc \in { "Stage", "Steps" } =>
          \A n \in DOMAIN stages :
             (stages[n].id \in existing /\ stages[n].id \in running)

\* The stages at positions s and t of the platform runs p and q are different
\* (platform, stage) pairs: the platforms differ, or they are stages of one
\* platform run at different positions that do not declare the same name.
DistinctPairs(p, s, q, t) ==
    \/ iplats[p] # iplats[q]
    \/ p = q /\ s # t /\ inames[s] # inames[t]

\* C31: within one Run distinct (platform, stage) pairs get distinct
\* container ids, also when a stage is named by the decimal 1-based position
\* of an unnamed stage; so the removal of the stale container by a later
\* StartContainer never removes the container of an earlier stage of the
\* run, and every entry of the stage map refers to the container started for
\* the stage of that name, still in the engine.
C31_ContainerIdsDistinct ==
    /\ \A a, b \in 1..Len(istarted) :
          DistinctPairs(istarted[a].pi, istarted[a].si,
                        istarted[b].pi, istarted[b].si)
             => istarted[a].id # istarted[b].id
    /\ \A k \in ikilled :
          ~DistinctPairs(istarted[k.start].pi, istarted[k.start].si, k.pi, k.si)
    /\ ipc \in { "stage", "platform" } =>
          \A n \in DOMAIN imap :
             /\ istarted[imap[n]].name = n
             /\ [id |-> istarted[imap[n]].id, start |-> imap[n]] \in ilive

Started == lastOp.op = "StartContainer"
Running == [exists |-> TRUE, task |-> "running"]

Asked(req) == { i \in 1..Len(elog) : elog[i].req = req }
Created == \E i \in Asked("Exec") : elog[i].ok
Returned == epc = "done"

C34_DoneClosedOnceOnEOF ==
    /\ ecloses = IF eeofs > 0 THEN 1 ELSE 0
    /\ eonce <=> ecloses = 1
    /\ Cardinality(Asked("CloseIO")) <= 1
    /\ \A c \in Asked("CloseIO") :
          /\ ecloses = 1
          /\ \E s \in Asked("Start") : s < c /\ elog[s].ok

\* Two Reads returned io.EOF after a Read that did not, the channel was
\* closed once and the stdin of the started process was closed.
C34_Witness ==
    /\ eeofs = 2 /\ ereads = 3
    /\ ecloses = 1
    /\ Asked("CloseIO") # {}

\* Shutdown commands that have been handled.
Shutdowns == { c \in Conns : conns[c].req = "shutdown" /\ conns[c].pc = "closed" }

\* C35: Server.Stop closes the done channel at most once under every
\* interleaving (a shutdown command and the Stop of the start command, two
\* shutdown commands, a Stop after a shutdown has stopped the server): no
\* second close, hence no panic, and once every Stop that was called has run
\* the server is stopped.
C35_DoneClosedAtMostOnce ==
    /\ ~crashed
    /\ ((Shutdowns # {} \/ signalled) /\ stopping = 0 /\ closing = 0) =>
          (done /\ listener = "closed")

Stopped == done /\ listener = "closed" /\ aloop = "exited"

\* C36: once a shutdown command has been handled (its ok response made before
\* the Stop it starts), the server eventually closes its listener, the accept
\* loop exits and Wait returns.
C36_ShutdownStops == (Shutdowns # {}) ~> Stopped

\* ---- C37
TargetResolved == tpc \in { "mutate", "build", "done", "failed" }

\* Entries of the root index whose platform field equals the container's platform.
DeclaredMatches ==
    { i \in 1..Len(troot.manifests) : troot.manifests[i].platform = tplat }

\* Manifest entries without a platform field whose readable config declares
\* the container's platform.
ProbedMatches ==
    { i \in 1..Len(troot.manifests) :
        /\ troot.manifests[i].platform = NoPlatform
        /\ troot.manifests[i].mediaType = "manifest"
        /\ troot.manifests[i].m.readable
        /\ troot.manifests[i].m.config.platform = tplat }

NoPlatformMetadata ==
    \A i \in 1..Len(troot.manifests) : troot.manifests[i].platform = NoPlatform

Selects(S) ==
    /\ tsel.err = "none" /\ tsel.index
    /\ tsel.i \in S /\ \A j \in S : tsel.i <= j
    /\ tsel.desc = troot.manifests[tsel.i]

SelectsFallback ==
    IF Len(troot.manifests) = 0 THEN tsel.err = "ErrEmptyIndex"
    ELSE tsel.err = "none" /\ tsel.index /\ tsel.i = 1 /\ tsel.desc = troot.manifests[1]

SelectsRootManifest ==
    tsel.err = "none" /\ ~tsel.index /\ tsel.desc.m = troot.m

\* C37 (as stated): for an index root Export selects the first entry whose
\* declared platform strictly equals the container's platform; entries are
\* probed through their config only if no entry of the index carries platform
\* metadata; if nothing matches, Export fails with EmptyIndex on an empty index
\* and otherwise selects the first entry; a manifest root is selected directly.
C37_ProbedOnlyWithoutMetadata ==
    TargetResolved =>
        IF troot.mediaType # "index" THEN SelectsRootManifest
        ELSE IF DeclaredMatches # {} THEN Selects(DeclaredMatches)
        ELSE IF NoPlatformMetadata /\ ProbedMatches # {} THEN Selects(ProbedMatches)
        ELSE SelectsFallback

\* C37 (amended): as above, except that the entries without a platform field
\* are probed through their config whenever no declared platform matched,
\* also when other entries of the index carry platform metadata.
C37_ProbedWhenNoDeclaredMatch ==
    TargetResolved =>
        IF troot.mediaType # "index" THEN SelectsRootManifest
        ELSE IF DeclaredMatches # {} THEN Selects(DeclaredMatches)
        ELSE IF ProbedMatches # {} THEN Selects(ProbedMatches)
        ELSE SelectsFallback

\* An index mixing entries with and without platform metadata, where only a
\* probed entry matches and it is not the first entry.
C37_Witness ==
    /\ TargetResolved /\ troot.mediaType = "index"
    /\ DeclaredMatches = {} /\ ~NoPlatformMetadata
    /\ ProbedMatches # {} /\ Selects(ProbedMatches) /\ tsel.i > 1

\* ---- C38
TargetBuilt == tpc = "done"

\* The platform an image under the root is for: its platform field, or the
\* platform of its config when the field is absent.
EffectivePlatform(d) ==
    IF d.platform # NoPlatform THEN d.platform ELSE d.m.config.platform

RootImages ==
    IF troot.mediaType = "index"
    THEN { troot.manifests[i] : i \in 1..Len(troot.manifests) }
    ELSE { Descriptor("manifest", NoPlatform, troot.m) }

\* Every image under the root is a readable manifest whose platform field,
\* if present, agrees with its config.
WellFormedRoot ==
    \A d \in RootImages :
        /\ d.mediaType = "manifest" /\ d.m.readable
        /\ d.platform \in { NoPlatform, d.m.config.platform }

\* StartContainer found an image for the platform: resolveImage selects with
\* platforms.Only.
Startable ==
    \E d \in RootImages : EffectivePlatform(d) \in Only(tplat)

\* The export root holds the mutated manifest and nothing else.
SingleMutatedManifest ==
    /\ ttarget.manifests = << tman.desc >>
    /\ ttarget.mediaType = IF troot.mediaType = "index" THEN "index" ELSE tman.desc.mediaType

\* C38: an index root is exported as a new index holding exactly the mutated
\* manifest, a manifest root as the mutated manifest itself; each platform's
\* archive therefore holds exactly one image, whose config declares the
\* architecture of the platform it was built for.
C38_OneImageOfThePlatform ==
    (TargetBuilt /\ WellFormedRoot /\ Startable) =>
        /\ SingleMutatedManifest
        /\ Len(ttarget.manifests) = 1
        /\ ttarget.manifests[1].m.config.platform.architecture = tplat.architecture

\* ---- C39
TargetMutated == tpc \in { "build", "done" }

BaseOf == tsel.desc.m

NewOf == tman.desc.m

\* C39: the exported manifest lists the layers of the selected base manifest,
\* unchanged and in order, followed by exactly one new layer, the snapshot
\* diff; the config's diff IDs are extended by exactly the matching diff ID,
\* so both lists keep the same length; a non-empty entrypoint override becomes
\* the Entrypoint and clears Cmd, otherwise both are those of the base image.
C39_OneLayerAppended ==
    TargetMutated =>
        /\ Len(NewOf.layers) = Len(BaseOf.layers) + 1
        /\ \A i \in 1..Len(BaseOf.layers) : NewOf.layers[i] = BaseOf.layers[i]
        /\ NewOf.layers[Len(NewOf.layers)] = NewLayer
        /\ Len(NewOf.config.diffIDs) = Len(BaseOf.config.diffIDs) + 1
        /\ \A i \in 1..Len(BaseOf.config.diffIDs) : NewOf.config.diffIDs[i] = BaseOf.config.diffIDs[i]
        /\ NewOf.config.diffIDs[Len(NewOf.config.diffIDs)] = NewDiffID
        /\ Len(NewOf.layers) = Len(NewOf.config.diffIDs)
        /\ IF tentry # << >>
           THEN NewOf.config.Entrypoint = tentry /\ NewOf.config.Cmd = << >>
           ELSE /\ NewOf.config.Entrypoint = BaseOf.config.Entrypoint
                /\ NewOf.config.Cmd = BaseOf.config.Cmd

\* An override replaces the entrypoint and the command of a base image that
\* has both, on top of MaxLayers base layers.
C39_Witness ==
    /\ TargetMutated /\ tentry # << >>
    /\ BaseOf.config.Entrypoint # << >> /\ BaseOf.config.Cmd # << >>
    /\ Len(BaseOf.layers) = MaxLayers
    /\ NewOf.config.Entrypoint = tentry /\ NewOf.config.Cmd = << >>
    /\ Len(NewOf.layers) = MaxLayers + 1

\* ---- C40
ManifestLabels == tman.desc.labels

\* C40: the manifest blob written by Export carries exactly 1 + len(layers) GC
\* reference labels: the config label holds the digest of the newly written
\* config, and label l.<i> holds the digest of layers[i] for every i, the
\* appended layer included; a newly written index carries label m.<i> for
\* each of its manifests.
C40_GCLabelsCoverChildren ==
    /\ TargetMutated =>
        /\ Cardinality(DOMAIN ManifestLabels) = 1 + Len(NewOf.layers)
        /\ ConfigLabel \in DOMAIN ManifestLabels
        /\ ManifestLabels[ConfigLabel] = NewOf.config
        /\ \A i \in 0..(Len(NewOf.layers) - 1) :
            /\ LayerLabel(i) \in DOMAIN ManifestLabels
            /\ ManifestLabels[LayerLabel(i)] = NewOf.layers[i + 1]
        /\ ManifestLabels[LayerLabel(Len(NewOf.layers) - 1)] = NewLayer
    /\ (TargetBuilt /\ troot.mediaType = "index") =>
        /\ Cardinality(DOMAIN ttarget.labels) = Len(ttarget.manifests)
        /\ \A i \in 0..(Len(ttarget.manifests) - 1) :
            /\ ManifestLabel(i) \in DOMAIN ttarget.labels
            /\ ttarget.labels[ManifestLabel(i)] = ttarget.manifests[i + 1].m

\* An index root exported with an override: the manifest blob is labelled
\* with a config that differs from the base config and with two layers, the
\* index blob with its one manifest.
C40_Witness ==
    /\ TargetBuilt /\ troot.mediaType = "index" /\ tentry # << >>
    /\ ManifestLabels[ConfigLabel] # BaseOf.config
    /\ DOMAIN ManifestLabels =
        { "containerd.io/gc.ref.content.config",
          "containerd.io/gc.ref.content.l.0",
          "containerd.io/gc.ref.content.l.1" }
    /\ ManifestLabels["containerd.io/gc.ref.content.l.1"] = NewLayer
    /\ DOMAIN ttarget.labels = { "containerd.io/gc.ref.content.m.0" }
====
